---- MODULE Spec2Model ----
(***************************************************************************)
(* A model of analyze_traffic.py, the access-log analytics engine of the   *)
(* devtoolbox repository: the classifiers, the attribution engine of       *)
(* WindowStats.record, the summary fields and the window comparison.       *)
(*                                                                         *)
(* Strings are sequences of one-character strings, so that the code's      *)
(* string operations (strip, split, partition, startswith, the regular     *)
(* expressions, urlparse, parse_qs) are computed on characters and not     *)
(* assumed.  A Counter is a function whose domain is the set of keys that  *)
(* have been counted; a datetime is a number of seconds.                   *)
(***************************************************************************)
EXTENDS Integers, Sequences, FiniteSets, TLC

\* ------------------------------------------------------------------ strings

WS == {" ", "\t", "\n", "\r"}
LOWERCASE == <<"a","b","c","d","e","f","g","h","i","j","k","l","m","n","o","p","q","r","s","t","u","v","w","x","y","z">>
UPPERCASE == <<"A","B","C","D","E","F","G","H","I","J","K","L","M","N","O","P","Q","R","S","T","U","V","W","X","Y","Z">>
LowerLetters == {LOWERCASE[i] : i \in 1..26}
UpperLetters == {UPPERCASE[i] : i \in 1..26}
Letters == LowerLetters \cup UpperLetters
Digits == {"0","1","2","3","4","5","6","7","8","9"}

\* str.lower() on one character and on a string
LowerChar(c) == IF c \in UpperLetters THEN LOWERCASE[CHOOSE i \in 1..26 : UPPERCASE[i] = c] ELSE c
Lower(s) == [i \in 1..Len(s) |-> LowerChar(s[i])]

\* s[i:] and s[:i], 1-based
From(s, i) == SubSeq(s, i, Len(s))
Upto(s, i) == SubSeq(s, 1, i)

\* str.startswith, str.endswith, `lit in s`
StartsWith(s, p) == Len(p) <= Len(s) /\ SubSeq(s, 1, Len(p)) = p
EndsWith(s, p) == Len(p) <= Len(s) /\ SubSeq(s, Len(s) - Len(p) + 1, Len(s)) = p
MatchAt(s, i, p) == i >= 1 /\ i + Len(p) - 1 <= Len(s) /\ SubSeq(s, i, i + Len(p) - 1) = p
Contains(s, p) == \E i \in 1..(Len(s) + 1) : MatchAt(s, i, p)
StartsWithAny(s, ps) == \E p \in ps : StartsWith(s, p)
EndsWithAny(s, ps) == \E p \in ps : EndsWith(s, p)

\* str.find(p): the first index of p in s (1-based), 0 when absent
Find(s, p) == IF Contains(s, p) THEN CHOOSE i \in 1..(Len(s) + 1) : MatchAt(s, i, p) /\ \A j \in 1..(i - 1) : ~MatchAt(s, j, p) ELSE 0
\* the first index of a character of the set cs at or after position from; Len(s)+1 when none
FindAnyFrom(s, cs, from) == IF \E i \in from..Len(s) : s[i] \in cs THEN CHOOSE i \in from..Len(s) : s[i] \in cs /\ \A j \in from..(i - 1) : s[j] \notin cs ELSE Len(s) + 1
\* str.rfind(c): the last index of the character c, 0 when absent
RFindChar(s, c) == IF \E i \in 1..Len(s) : s[i] = c THEN CHOOSE i \in 1..Len(s) : s[i] = c /\ \A j \in (i + 1)..Len(s) : s[j] # c ELSE 0

\* str.lstrip(chars), str.rstrip(chars), str.strip()
LStripChars(s, cs) == IF \A i \in 1..Len(s) : s[i] \in cs THEN <<>> ELSE From(s, CHOOSE i \in 1..Len(s) : s[i] \notin cs /\ \A j \in 1..(i - 1) : s[j] \in cs)
RStripChars(s, cs) == IF \A i \in 1..Len(s) : s[i] \in cs THEN <<>> ELSE Upto(s, CHOOSE i \in 1..Len(s) : s[i] \notin cs /\ \A j \in (i + 1)..Len(s) : s[j] \in cs)
Strip(s) == RStripChars(LStripChars(s, WS), WS)

\* str.partition(p): <<before, after>>; after is empty when p is absent
PartitionStr(s, p) == LET i == Find(s, p) IN IF i = 0 THEN <<s, <<>>>> ELSE <<SubSeq(s, 1, i - 1), From(s, i + Len(p))>>

\* str.split(): the maximal runs of non-whitespace characters, in order
RECURSIVE SplitWS(_)
SplitWS(s) == LET t == LStripChars(s, WS) IN IF t = <<>> THEN <<>> ELSE LET e == FindAnyFrom(t, WS, 1) IN <<SubSeq(t, 1, e - 1)>> \o SplitWS(From(t, e))

\* str.split(c) on one character: every field, the empty ones included
RECURSIVE SplitChar(_, _)
SplitChar(s, c) == LET e == FindAnyFrom(s, {c}, 1) IN IF e > Len(s) THEN <<s>> ELSE <<SubSeq(s, 1, e - 1)>> \o SplitChar(From(s, e + 1), c)

\* re.sub(r"/{2,}", "/", s): every run of slashes becomes one slash
CollapseSlashes(s) ==
    LET kept == SelectSeq([i \in 1..Len(s) |-> i], LAMBDA i : ~(i > 1 /\ s[i] = "/" /\ s[i - 1] = "/"))
    IN [k \in 1..Len(kept) |-> s[kept[k]]]

\* The set of elements of a sequence
Range(s) == {s[i] : i \in 1..Len(s)}

\* Counter[k] += 1, Counter.get(k, 0) and sum(Counter.values())
Inc(c, k) == IF k \in DOMAIN c THEN [c EXCEPT ![k] = @ + 1] ELSE c @@ (k :> 1)
Get(c, k) == IF k \in DOMAIN c THEN c[k] ELSE 0
RECURSIVE SumOver(_, _)
SumOver(c, ks) == IF ks = {} THEN 0 ELSE LET k == CHOOSE x \in ks : TRUE IN c[k] + SumOver(c, ks \ {k})
Sum(c) == SumOver(c, DOMAIN c)
EmptyCounter == <<>>

\* ------------------------------------------------- urllib.parse (as used)

\* urllib.parse: the characters a scheme may hold, and the schemes whose last
\* path segment may carry ";parameters"
SchemeChars == Letters \cup Digits \cup {"+", "-", "."}
UsesParams == {<<>>, <<"f","t","p">>, <<"h","d","l">>, <<"p","r","o","s","p","e","r","o">>, <<"h","t","t","p">>, <<"i","m","a","p">>, <<"h","t","t","p","s">>, <<"s","h","t","t","p">>, <<"r","t","s","p">>, <<"r","t","s","p","u">>, <<"s","i","p">>, <<"s","i","p","s">>, <<"m","m","s">>, <<"s","f","t","p">>, <<"t","e","l">>}

\* urlsplit's scheme: url[:i] for the first ":" when url[0] is a letter and
\* every character before the colon is a scheme character; 0 when there is none
SchemeEnd(url) == LET i == Find(url, <<":">>) IN IF i > 1 /\ url[1] \in Letters /\ \A j \in 1..(i - 1) : url[j] \in SchemeChars THEN i ELSE 0

\* _splitparams: the path without the ";parameters" of its last segment
SplitParams(url) == LET slash == RFindChar(url, "/") IN LET i == FindAnyFrom(url, {";"}, IF slash > 0 THEN slash ELSE 1) IN IF i > Len(url) THEN url ELSE SubSeq(url, 1, i - 1)

\* urlsplit: the lower-cased scheme and what follows its colon
SplitScheme(url) ==
    LET se == SchemeEnd(url) IN
    IF se > 0 THEN [scheme |-> Lower(SubSeq(url, 1, se - 1)), rest |-> From(url, se + 1)] ELSE [scheme |-> <<>>, rest |-> url]

\* urlsplit: the netloc after "//", up to the first of "/", "?" and "#", and
\* what follows it
SplitNetloc(url) ==
    LET delim == FindAnyFrom(url, {"/", "?", "#"}, 3) IN
    IF StartsWith(url, <<"/","/">>) THEN [netloc |-> SubSeq(url, 3, delim - 1), rest |-> From(url, delim)] ELSE [netloc |-> <<>>, rest |-> url]

\* urlparse: the path without the parameters a scheme of uses_params carries
PathParams(scheme, url) == IF scheme \in UsesParams /\ ";" \in Range(url) THEN SplitParams(url) ELSE url

\* urlparse: the path of what follows the netloc, the fragment and the query cut off
UrlPath(scheme, url) == PathParams(scheme, PartitionStr(PartitionStr(url, <<"#">>)[1], <<"?">>)[1])

\* urlsplit raises ValueError on a netloc with an unmatched square bracket
UrlParts(scheme, n) == [ok |-> ("[" \in Range(n.netloc)) = ("]" \in Range(n.netloc)), scheme |-> scheme, netloc |-> n.netloc, path |-> UrlPath(scheme, n.rest)]
UrlSplit(s) == UrlParts(s.scheme, SplitNetloc(s.rest))

\* urlparse(url): [ok, scheme, netloc, path]; ok is FALSE where urlsplit
\* raises ValueError.  The url loses its leading whitespace and its tabs and
\* newlines first
NotTabOrNewline(c) == c \notin {"\t", "\n", "\r"}
urlparse(url) == UrlSplit(SplitScheme(SelectSeq(LStripChars(url, WS), NotTabOrNewline)))

\* urllib.parse.unquote on the escapes the model's strings can hold
UnquoteTable == (<<"2","F">> :> "/") @@ (<<"2","f">> :> "/") @@ (<<"2","0">> :> " ") @@ (<<"3","A">> :> ":") @@ (<<"3","a">> :> ":") @@ (<<"5","F">> :> "_") @@ (<<"5","f">> :> "_")
RECURSIVE Unquote(_)
Unquote(s) ==
    LET escapes == {i \in 1..(Len(s) - 2) : s[i] = "%" /\ SubSeq(s, i + 1, i + 2) \in DOMAIN UnquoteTable} IN
    IF escapes = {} THEN s
    ELSE LET i == CHOOSE x \in escapes : \A y \in escapes : x <= y
         IN SubSeq(s, 1, i - 1) \o <<UnquoteTable[SubSeq(s, i + 1, i + 2)]>> \o Unquote(From(s, i + 3))
PlusToSpace(s) == [i \in 1..Len(s) |-> IF s[i] = "+" THEN " " ELSE s[i]]

\* parse_qs(query, keep_blank_values=False).get(key, []): the decoded values of
\* the fields name=value whose decoded name is key, in order; a field without
\* "=" or with an empty value is dropped
RECURSIVE QsValues(_, _)
QsValues(fields, key) ==
    IF fields = <<>> THEN <<>>
    ELSE LET f == Head(fields)
             eq == Find(f, <<"=">>)
             name == Unquote(PlusToSpace(SubSeq(f, 1, eq - 1)))
             value == Unquote(PlusToSpace(From(f, eq + 1)))
         IN (IF f # <<>> /\ eq > 0 /\ eq < Len(f) /\ name = key THEN <<value>> ELSE <<>>) \o QsValues(Tail(fields), key)
parse_qs_get(query, key) == QsValues(SplitChar(query, "&"), key)

\* ------------------------------------------------------ request normalizer

\* `if len(normalized) > 1: normalized = normalized.rstrip("/")`
DropTrailingSlashes(normalized) == IF Len(normalized) > 1 THEN RStripChars(normalized, {"/"}) ELSE normalized

\* `s or "/"`
OrSlash(s) == IF s # <<>> THEN s ELSE <<"/">>

\* normalize_path from `if not raw_path.startswith("/")` on: the leading slash
\* supplied, the runs of slashes collapsed, the trailing slashes dropped
RootedPath(raw_path) == OrSlash(DropTrailingSlashes(CollapseSlashes(IF StartsWith(raw_path, <<"/">>) THEN raw_path ELSE <<"/">> \o raw_path)))

\* normalize_path on a path that holds "://": the path of the parsed URL, ""
\* on ValueError
ParsedPath(parsed) == IF ~parsed.ok THEN <<>> ELSE RootedPath(OrSlash(parsed.path))

\* normalize_path on the stripped path
NormalizeStripped(raw_path) ==
    IF raw_path = <<>> THEN <<>>
    ELSE IF Contains(raw_path, <<":","/","/">>) THEN ParsedPath(urlparse(raw_path))
    ELSE RootedPath(raw_path)

normalize_path(path) == IF path = <<>> THEN <<>> ELSE NormalizeStripped(Strip(path))

\* parse_request_path_query on the partitioned request target
TargetPathQuery(pq) == <<OrSlash(normalize_path(OrSlash(pq[1]))), pq[2]>>

\* parse_request_path_query(request): <<path, query>>
parse_request_path_query(request) ==
    LET parts == SplitWS(request) IN
    IF Len(parts) < 2 THEN <<<<>>, <<>>>> ELSE TargetPathQuery(PartitionStr(Strip(parts[2]), <<"?">>))

\* ------------------------------------------------------------- constants

CONTENT_SECTION_NAMES == <<<<"h","o","m","e","p","a","g","e">>, <<"b","l","o","g">>, <<"t","o","o","l","s">>, <<"c","h","e","a","t","s","h","e","e","t","s">>, <<"d","a","t","e","k","i","t">>, <<"b","u","d","g","e","t","k","i","t">>, <<"h","e","a","l","t","h","k","i","t">>, <<"s","l","e","e","p","k","i","t">>, <<"f","o","c","u","s","k","i","t">>, <<"o","p","s","k","i","t">>, <<"s","t","u","d","y","k","i","t">>, <<"c","a","r","e","e","r","k","i","t">>, <<"h","o","u","s","i","n","g","k","i","t">>, <<"t","a","x","k","i","t">>, <<"o","t","h","e","r">>>>
INTERNAL_CROSSPROPERTY_TARGETS == {<<"d","a","t","e","k","i","t">>, <<"b","u","d","g","e","t","k","i","t">>, <<"h","e","a","l","t","h","k","i","t">>, <<"s","l","e","e","p","k","i","t">>, <<"f","o","c","u","s","k","i","t">>, <<"o","p","s","k","i","t">>, <<"s","t","u","d","y","k","i","t">>, <<"c","a","r","e","e","r","k","i","t">>, <<"h","o","u","s","i","n","g","k","i","t">>, <<"t","a","x","k","i","t">>}
CROSSPROMO_CAMPAIGN_NAME == <<"c","r","o","s","s","p","r","o","m","o","-","t","o","p","-","o","r","g","a","n","i","c">>
CROSSPROMO_REDIRECT_TARGETS == {<<"d","a","t","e","k","i","t">>, <<"b","u","d","g","e","t","k","i","t">>, <<"h","e","a","l","t","h","k","i","t">>, <<"s","l","e","e","p","k","i","t">>, <<"f","o","c","u","s","k","i","t">>, <<"o","p","s","k","i","t">>, <<"s","t","u","d","y","k","i","t">>, <<"c","a","r","e","e","r","k","i","t">>, <<"h","o","u","s","i","n","g","k","i","t">>, <<"k","i","t","s">>}
\* timedelta(minutes=30), in seconds
INFERRED_SOURCE_LOOKBACK == 1800
\* The cap of a client's recent-path queue.  The source sets 200
\* (analyze_traffic.py:73); the model scales it down so that a run of a few
\* events fills a queue, and every statement about the cap names it.
INFERRED_SOURCE_MAX_RECENT_PATHS == 2
INFERRED_SOURCE_SECTION_PATHS == (<<"h","o","m","e","p","a","g","e">> :> <<"/">>) @@ (<<"b","l","o","g">> :> <<"/","b","l","o","g">>) @@ (<<"t","o","o","l","s">> :> <<"/","t","o","o","l","s">>) @@ (<<"c","h","e","a","t","s","h","e","e","t","s">> :> <<"/","c","h","e","a","t","s","h","e","e","t","s">>) @@ (<<"d","a","t","e","k","i","t">> :> <<"/","d","a","t","e","k","i","t">>) @@ (<<"b","u","d","g","e","t","k","i","t">> :> <<"/","b","u","d","g","e","t","k","i","t">>) @@ (<<"h","e","a","l","t","h","k","i","t">> :> <<"/","h","e","a","l","t","h","k","i","t">>) @@ (<<"s","l","e","e","p","k","i","t">> :> <<"/","s","l","e","e","p","k","i","t">>) @@ (<<"f","o","c","u","s","k","i","t">> :> <<"/","f","o","c","u","s","k","i","t">>) @@ (<<"o","p","s","k","i","t">> :> <<"/","o","p","s","k","i","t">>) @@ (<<"s","t","u","d","y","k","i","t">> :> <<"/","s","t","u","d","y","k","i","t">>) @@ (<<"c","a","r","e","e","r","k","i","t">> :> <<"/","c","a","r","e","e","r","k","i","t">>) @@ (<<"h","o","u","s","i","n","g","k","i","t">> :> <<"/","h","o","u","s","i","n","g","k","i","t">>) @@ (<<"t","a","x","k","i","t">> :> <<"/","t","a","x","k","i","t">>)
SITE_HOST == <<"d","e","v","t","o","o","l","b","o","x",".","d","e","d","y","n",".","i","o">>
CAMPAIGN_MARKER == <<"u","t","m","_","c","a","m","p","a","i","g","n","=">> \o CROSSPROMO_CAMPAIGN_NAME

\* ASSET_PATTERN: \.(css|js|...)$, case-insensitive
ASSET_SUFFIXES == {<<".","c","s","s">>, <<".","j","s">>, <<".","m","j","s">>, <<".","i","c","o">>, <<".","p","n","g">>, <<".","j","p","g">>, <<".","j","p","e","g">>, <<".","g","i","f">>, <<".","s","v","g">>, <<".","w","e","b","p">>, <<".","a","v","i","f">>, <<".","w","o","f","f">>, <<".","w","o","f","f","2">>, <<".","t","t","f">>, <<".","e","o","t">>, <<".","m","a","p">>, <<".","t","x","t">>, <<".","x","m","l">>}
EXACT_ASSET_PATHS == {<<"/","f","a","v","i","c","o","n",".","i","c","o">>, <<"/","r","o","b","o","t","s",".","t","x","t">>, <<"/","s","i","t","e","m","a","p",".","x","m","l">>, <<"/","f","e","e","d",".","x","m","l">>, <<"/","s","w",".","j","s">>, <<"/","m","a","n","i","f","e","s","t",".","j","s","o","n">>, <<"/","s","i","t","e",".","w","e","b","m","a","n","i","f","e","s","t">>}

\* ENGINE_PATTERNS, in the order the code tries them: <<substring, name>>
ENGINE_PATTERNS == << <<<<"g","o","o","g","l","e",".">>, <<"g","o","o","g","l","e">>>>, <<<<"b","i","n","g",".">>, <<"b","i","n","g">>>>, <<<<"d","u","c","k","d","u","c","k","g","o",".">>, <<"d","u","c","k","d","u","c","k","g","o">>>>, <<<<"y","a","h","o","o",".">>, <<"y","a","h","o","o">>>>, <<<<"e","c","o","s","i","a",".">>, <<"e","c","o","s","i","a">>>>, <<<<"q","w","a","n","t",".">>, <<"q","w","a","n","t">>>>, <<<<"a","o","l",".">>, <<"a","o","l">>>>, <<<<"s","e","a","r","c","h",".","b","r","a","v","e",".","c","o","m">>, <<"b","r","a","v","e">>>>, <<<<"y","a","n","d","e","x",".">>, <<"y","a","n","d","e","x">>>> >>

\* BOT_UA_PATTERNS: each a set of words, matched case-insensitively where the
\* characters before and after the word are not letters
BOT_UA_PATTERNS == << {<<"b","o","t">>, <<"c","r","a","w","l","e","r">>, <<"s","p","i","d","e","r">>, <<"s","l","u","r","p">>}, {<<"h","e","a","d","l","e","s","s">>, <<"l","i","g","h","t","h","o","u","s","e">>, <<"p","a","g","e","s","p","e","e","d">>}, {<<"c","u","r","l">>, <<"w","g","e","t">>, <<"p","y","t","h","o","n","-","r","e","q","u","e","s","t","s">>, <<"s","c","r","a","p","y">>, <<"h","t","t","p","c","l","i","e","n","t">>, <<"g","o","-","h","t","t","p","-","c","l","i","e","n","t">>} >>

SUSPECTED_CROSSPROMO_DATACENTER_IP_PREFIXES == {<<"4","3",".","1","3","0",".">>, <<"4","3",".","1","3","1",".">>, <<"4","3",".","1","3","2",".">>, <<"4","3",".","1","3","3",".">>, <<"4","3",".","1","3","5",".">>, <<"4","3",".","1","5","2",".">>, <<"4","3",".","1","5","3",".">>, <<"4","3",".","1","5","5",".">>, <<"4","3",".","1","5","6",".">>, <<"4","3",".","1","5","7",".">>, <<"4","3",".","1","5","8",".">>, <<"4","3",".","1","6","6",".">>, <<"4","3",".","1","6","7",".">>, <<"4","9",".","5","1",".">>, <<"1","0","1",".","3","3",".">>, <<"1","2","4",".","1","5","6",".">>, <<"1","7","0",".","1","0","6",".">>}
\* SUSPECTED_CROSSPROMO_SPOOFED_MOBILE_UA: the one string the pattern matches in full
SUSPECTED_CROSSPROMO_SPOOFED_MOBILE_UA == <<"M","o","z","i","l","l","a","/","5",".","0"," ","(","i","P","h","o","n","e",";"," ","C","P","U"," ","i","P","h","o","n","e"," ","O","S"," ","1","3","_","2","_","3"," ","l","i","k","e"," ","M","a","c"," ","O","S"," ","X",")"," ","A","p","p","l","e","W","e","b","K","i","t","/","6","0","5",".","1",".","1","5"," ","(","K","H","T","M","L",","," ","l","i","k","e"," ","G","e","c","k","o",")"," ","V","e","r","s","i","o","n","/","1","3",".","0",".","3"," ","M","o","b","i","l","e","/","1","5","E","1","4","8"," ","S","a","f","a","r","i","/","6","0","4",".","1">>

\* ------------------------------------------------------------ classifiers

is_asset_path(path) ==
    IF path = <<>> THEN TRUE
    ELSE IF path \in EXACT_ASSET_PATHS THEN TRUE
    ELSE IF StartsWith(path, <<"/","a","s","s","e","t","s","/">>) \/ StartsWith(path, <<"/","s","t","a","t","i","c","/">>) THEN TRUE
    ELSE EndsWithAny(Lower(path), ASSET_SUFFIXES)

SectionOf(path, name) == path = <<"/">> \o name \/ StartsWith(path, <<"/">> \o name \o <<"/">>)
\* classify_content_section on the normalized path: the first section, in the
\* order of the code's tests, whose prefix the path carries
SectionOfPath(path) ==
    IF path = <<"/">> THEN <<"h","o","m","e","p","a","g","e">>
    ELSE IF \E i \in 2..14 : SectionOf(path, CONTENT_SECTION_NAMES[i])
         THEN CONTENT_SECTION_NAMES[CHOOSE i \in 2..14 : SectionOf(path, CONTENT_SECTION_NAMES[i]) /\ \A j \in 2..(i - 1) : ~SectionOf(path, CONTENT_SECTION_NAMES[j])]
         ELSE <<"o","t","h","e","r">>
classify_content_section(path) == SectionOfPath(OrSlash(normalize_path(path)))

\* detect_engine, were no referrer matched to an engine
no_engine(referrer) == <<>>

detect_engine(referrer) ==
    LET hit(i) == Contains(Lower(referrer), ENGINE_PATTERNS[i][1]) IN
    IF \E i \in 1..Len(ENGINE_PATTERNS) : hit(i)
    THEN ENGINE_PATTERNS[CHOOSE i \in 1..Len(ENGINE_PATTERNS) : hit(i) /\ \A j \in 1..(i - 1) : ~hit(j)][2]
    ELSE <<>>

normalize_user_agent(user_agent) ==
    LET value == Strip(user_agent) IN IF value = <<"-">> THEN <<>> ELSE value

\* (?:^|[^a-z])(w1|w2|...)(?:[^a-z]|$) with re.IGNORECASE, searched in s
WordMatch(s, words) ==
    LET l == Lower(s) IN
    \E w \in words : \E i \in 1..Len(l) :
        /\ MatchAt(l, i, w)
        /\ (i = 1 \/ l[i - 1] \notin LowerLetters)
        /\ (i + Len(w) > Len(l) \/ l[i + Len(w)] \notin LowerLetters)

is_known_bot_user_agent(user_agent) ==
    LET normalized == normalize_user_agent(user_agent) IN
    IF normalized = <<>> THEN FALSE
    ELSE \E k \in 1..Len(BOT_UA_PATTERNS) : WordMatch(normalized, BOT_UA_PATTERNS[k])

HasReferrer(referrer) == referrer # <<>> /\ referrer # <<"-">>

\* is_suspected_crosspromo_automation, were the missing referrer enough
no_referrer_alone(ip, normalized_user_agent, referrer, query) == Contains(query, CAMPAIGN_MARKER) /\ ~HasReferrer(referrer)

is_suspected_crosspromo_automation(ip, normalized_user_agent, referrer, query) ==
    IF ~Contains(query, CAMPAIGN_MARKER) THEN FALSE
    ELSE IF HasReferrer(referrer) THEN FALSE
    ELSE IF normalized_user_agent = <<>> THEN FALSE
    ELSE IF normalized_user_agent # SUSPECTED_CROSSPROMO_SPOOFED_MOBILE_UA THEN FALSE
    ELSE StartsWithAny(ip, SUSPECTED_CROSSPROMO_DATACENTER_IP_PREFIXES)

\* is_crosspromo_redirect_hop, were no path a redirect hop
never_a_redirect_hop(path) == FALSE

\* is_crosspromo_redirect_hop on the normalized path
IsRedirectHop(normalized) ==
    IF ~StartsWith(normalized, <<"/","g","o","/">>) THEN FALSE
    ELSE RStripChars(LStripChars(From(normalized, 5), {"/"}), {"/"}) \in CROSSPROMO_REDIRECT_TARGETS
is_crosspromo_redirect_hop(path) == IsRedirectHop(normalize_path(path))

\* The host test shared by the referrer and the utm_content parsers
SameSiteHost(netloc) ==
    LET host == Lower(netloc)
        bare == IF StartsWith(host, <<"w","w","w",".">>) THEN From(host, 5) ELSE host
    IN bare = SITE_HOST

\* parse_internal_referrer_path, were no referrer taken for a same-site one
no_internal_referrer_path(referrer) == <<>>

\* The normalized path of a parsed URL of the site, "" for any other: the
\* lines the referrer and the utm_content parsers share
SameSitePath(parsed) ==
    IF ~parsed.ok THEN <<>>
    ELSE IF ~SameSiteHost(parsed.netloc) THEN <<>>
    ELSE normalize_path(OrSlash(parsed.path))

parse_internal_referrer_path(referrer) == IF ~HasReferrer(referrer) THEN <<>> ELSE SameSitePath(urlparse(referrer))

\* BLOG_SLUG_PATTERN: ^[a-z0-9][a-z0-9-]*$ matched in full
BlogSlug(s) == s # <<>> /\ s[1] \in (LowerLetters \cup Digits) /\ \A i \in 1..Len(s) : s[i] \in (LowerLetters \cup Digits \cup {"-"})

\* InferByName, were the slug pattern tried before the section names
slug_before_section(name) ==
    IF BlogSlug(name) THEN <<"/","b","l","o","g","/">> \o name
    ELSE IF name \in DOMAIN INFERRED_SOURCE_SECTION_PATHS THEN INFERRED_SOURCE_SECTION_PATHS[name]
    ELSE <<>>

\* infer_internal_source_path on a lower-cased candidate that is neither a
\* URL nor a path: a section name, or the slug of a blog post
InferByName(name) ==
    IF name \in DOMAIN INFERRED_SOURCE_SECTION_PATHS THEN INFERRED_SOURCE_SECTION_PATHS[name]
    ELSE IF BlogSlug(name) THEN <<"/","b","l","o","g","/">> \o name
    ELSE <<>>

\* infer_internal_source_path on the stripped source
InferCandidate(candidate) ==
    IF candidate = <<>> THEN <<>>
    ELSE IF StartsWith(candidate, <<"h","t","t","p",":","/","/">>) \/ StartsWith(candidate, <<"h","t","t","p","s",":","/","/">>) THEN SameSitePath(urlparse(candidate))
    ELSE IF StartsWith(candidate, <<"/">>) THEN normalize_path(candidate)
    ELSE InferByName(Lower(candidate))

infer_internal_source_path(source) == InferCandidate(Strip(source))

\* ------------------------------------------------ SUSPICIOUS_PATH_PATTERNS
\* Each pattern of the table as a predicate of the lower-cased path p (every
\* pattern is compiled with re.IGNORECASE and spells its literals in lower
\* case), in the order of the table.

PathPrefixed(names, exts) == {<<"/">> \o n \o <<".">> \o e : n \in names, e \in exts}
AllDigits(s) == \A i \in 1..Len(s) : s[i] \in Digits
NoSlash(s) == "/" \notin Range(s)
\* (?:^|/)word(?:$|[/.]) somewhere in p
SegmentWord(p, words) == \E w \in words : \E i \in 1..Len(p) : MatchAt(p, i, w) /\ (i = 1 \/ p[i - 1] = "/") /\ (i + Len(w) > Len(p) \/ p[i + Len(w)] \in {"/", "."})

\* The patterns ^/(?:a|b|...)$ and the alternatives of that form of the other
\* patterns: the paths matched in full
SuspiciousExactPaths ==
    {<<"/","w","p","-","a","d","m","i","n">>, <<"/","w","p","-","l","o","g","i","n",".","p","h","p">>, <<"/","x","m","l","r","p","c",".","p","h","p">>}
    \cup {<<"/","w","p","-","c","o","n","f","i","g",".","p","h","p">>, <<"/","w","e","b",".","c","o","n","f","i","g">>, <<"/","c","o","n","f","i","g","u","r","a","t","i","o","n",".","p","h","p">>, <<"/","c","o","n","f","i","g",".","j","s","o","n">>, <<"/","s","e","c","r","e","t","s",".","j","s","o","n">>, <<"/","c","r","e","d","e","n","t","i","a","l","s",".","j","s","o","n">>}
    \cup {<<"/","p","u","b","l","i","c","/","h","o","t">>, <<"/","p","u","b","l","i","c","/","s","t","o","r","a","g","e">>, <<"/","c","o","n","t","a","i","n","e","r","s","/","j","s","o","n">>, <<"/","s","t","o","r","a","g","e","/","*",".","k","e","y">>}
    \cup {<<"/","b","i","n","/","s","h">>, <<"/","h","e","l","l","o",".","w","o","r","l","d">>, <<"/","m","a","n","a","g","e","r","/","h","t","m","l">>, <<"/","s","h","e","l","l">>, <<"/","v","e","r","s","i","o","n">>, <<"/","v","1">>}
    \cup {<<"/",".","e","m","a","c","s",".","d","e","s","k","t","o","p">>, <<"/",".","e","m","a","c","s",".","d","e","s","k","t","o","p",".","l","o","c","k">>, <<"/","e","s","h","e","l","l","/","l","a","s","t","d","i","r">>, <<"/","e","s","h","e","l","l","/","h","i","s","t","o","r","y">>, <<"/","e","l","p","a","/">>, <<"/","a","u","t","o","/">>}
    \cup {<<"/","a","d","m","i","n">>, <<"/","a","d","m","i","n","/","c","o","n","f","i","g",".","p","h","p">>, <<"/","l","o","g","i","n">>, <<"/","a","a","a","9">>, <<"/","a","a","b","9">>}
    \cup {<<"/","b","a","c","k","u","p",".","s","q","l">>, <<"/","d","u","m","p",".","s","q","l">>, <<"/","d","a","t","a","b","a","s","e",".","s","q","l">>}
    \cup {<<"/","p","h","p","i","n","f","o",".","p","h","p">>, <<"/","c","o","m","p","o","s","e","r",".","j","s","o","n">>, <<"/","d","o","c","k","e","r","-","c","o","m","p","o","s","e",".","y","m","l">>, <<"/","b","i","t","b","u","c","k","e","t","-","p","i","p","e","l","i","n","e","s",".","y","m","l">>}
    \cup {<<"/","w","p","-","c","o","n","f","i","g",".","p","h","p">>, <<"/","w","p","-","c","o","n","f","i","g",".","p","h","p",".","b","a","k">>, <<"/","w","p","-","c","o","n","f","i","g",".","p","h","p",".","o","l","d">>, <<"/","w","p","-","c","o","n","f","i","g",".","p","h","p",".","s","a","v","e">>, <<"/","w","p","-","c","o","n","f","i","g",".","p","h","p",".","o","r","i","g">>}
    \cup {<<"/","g","p","o","n","f","o","r","m","/","d","i","a","g","_","f","o","r","m">>}
    \cup PathPrefixed({<<"c","o","n","f","i","g">>, <<"c","o","n","f","i","g","u","r","a","t","i","o","n">>, <<"s","e","t","t","i","n","g","s">>, <<"c","r","e","d","e","n","t","i","a","l","s">>, <<"s","e","c","r","e","t">>, <<"s","e","c","r","e","t","s">>, <<"d","a","t","a","b","a","s","e">>, <<"d","b">>, <<"a","p","p","s","e","t","t","i","n","g","s">>, <<"a","p","p","l","i","c","a","t","i","o","n">>, <<"s","e","r","v","e","r","l","e","s","s">>}, {<<"p","h","p">>, <<"i","n","i">>, <<"c","f","g">>, <<"c","o","n","f">>, <<"y","m","l">>, <<"y","a","m","l">>, <<"j","s","o","n">>, <<"p","r","o","p","e","r","t","i","e","s">>, <<"s","q","l">>})
    \cup {<<"/","d","o","c","k","e","r","-","c","o","m","p","o","s","e",".","y","m","l">>, <<"/","d","o","c","k","e","r","-","c","o","m","p","o","s","e",".","y","a","m","l">>, <<"/","d","o","c","k","e","r","-","c","o","m","p","o","s","e",".","o","v","e","r","r","i","d","e",".","y","m","l">>, <<"/","d","o","c","k","e","r","-","c","o","m","p","o","s","e",".","o","v","e","r","r","i","d","e",".","y","a","m","l">>}
    \cup {<<"/","c","o","n","f","i","g">>, <<"/","a","p","p","/","c","o","n","f","i","g">>}
    \cup {<<"/","s","e","r","v","e","r","-","s","t","a","t","u","s">>, <<"/","s","e","r","v","e","r","-","i","n","f","o">>}
    \cup {<<"/","d","e","b","u","g",".","l","o","g">>, <<"/","e","r","r","o","r",".","l","o","g">>}
    \cup {<<"/","s","e","t","t","i","n","g","s",".","p","y">>, <<"/","l","o","c","a","l","_","s","e","t","t","i","n","g","s",".","p","y">>}
    \cup {<<"/","c","o","n","f","i","g",".","p","y">>, <<"/","i","n","s","t","a","n","c","e","/","c","o","n","f","i","g",".","p","y">>}
    \cup {<<"/","a","p","p","s","e","t","t","i","n","g","s",".","j","s","o","n">>, <<"/","t","e","r","r","a","f","o","r","m",".","t","f","v","a","r","s">>}
    \cup {<<"/","p","a","c","k","a","g","e",".","j","s","o","n">>, <<"/","p","a","c","k","a","g","e","-","l","o","c","k",".","j","s","o","n">>, <<"/","c","o","m","p","o","s","e","r",".","l","o","c","k">>, <<"/","y","a","r","n",".","l","o","c","k">>, <<"/","p","n","p","m","-","l","o","c","k",".","y","a","m","l">>}
    \cup {<<"/","_","n","e","x","t">>}

\* The patterns ^/(?:a|b|...) and the alternatives of that form: the prefixes
SuspiciousPrefixes ==
    {<<"/","w","p","-","a","d","m","i","n","/">>, <<"/","p","h","p","u","n","i","t","/">>, <<"/","l","i","b","/","p","h","p","u","n","i","t","/">>, <<"/","w","p","-","c","o","n","f","i","g">>}
    \cup {<<"/","b","o","a","f","o","r","m","/">>, <<"/","a","c","t","u","a","t","o","r","/">>, <<"/","g","e","o","s","e","r","v","e","r","/","w","e","b","/">>, <<"/","d","e","v","e","l","o","p","m","e","n","t","s","e","r","v","e","r","/","m","e","t","a","d","a","t","a","u","p","l","o","a","d","e","r">>}
    \cup {<<"/","w","e","b","u","i","/">>, <<"/","v","a","r","/","l","o","g","/">>, <<"/","u","s","r","/","b","i","n","/">>, <<"/","p","a","t","h","/","t","o","/">>, <<"/","b","i","n","s","/">>}
    \cup {<<"/","c","o","n","f","i","g","/">>, <<"/","a","p","p","/","c","o","n","f","i","g","/">>, <<"/","_","n","e","x","t","/">>}

\* The patterns without an anchor, and those anchored at the end alone
SuspiciousSubstrings == {<<"/","v","e","n","d","o","r","/","p","h","p","u","n","i","t","/">>, <<"%","7","c","_">>, <<"|","_">>}
SuspiciousSuffixes == {<<".","p","h","t","m","l">>, <<".","p","h","a","r">>, <<"/",".","g","i","t","/","c","o","n","f","i","g">>}

\* \.php(?:\d+)?$
PhpSuffix(p) == \E i \in 1..Len(p) : MatchAt(p, i, <<".","p","h","p">>) /\ AllDigits(From(p, i + 4))
\* /\.env(?:[._-][^/]*)?$
EnvFile(p) == \E i \in 1..Len(p) : MatchAt(p, i, <<"/",".","e","n","v">>) /\ (i + 5 > Len(p) \/ (p[i + 5] \in {".", "_", "-"} /\ NoSlash(From(p, i + 6))))
\* (?:^|/)(?:phpinfo|...|php\.ini)(?:$|[/.])
PhpInfoProbe(p) == SegmentWord(p, {<<"p","h","p","i","n","f","o">>, <<"p","h","p","s","y","s","i","n","f","o">>, <<"p","h","p","-","i","n","f","o">>, <<"p","h","p","d","e","t","a","i","l">>, <<"p","h","p","d","e","t","a","i","l","s">>, <<"p","h","p","_","d","e","t","a","i","l">>, <<"p","h","p","_","d","e","t","a","i","l","s">>, <<"p","h","p","-","d","e","t","a","i","l">>, <<"p","h","p","-","d","e","t","a","i","l","s">>, <<"p","h","p","i","n","f","o","r","m","a","t","i","o","n">>, <<"i","n","f","o","p","h","p">>, <<"t","e","s","t","p","h","p">>, <<"t","e","s","t","p","h","p","i","n","f","o">>, <<"p","i","n","f","o">>, <<"p","h","p",".","i","n","i">>})
\* ^/\.(?!well-known/)
DotFile(p) == StartsWith(p, <<"/",".">>) /\ ~StartsWith(p, <<"/",".","w","e","l","l","-","k","n","o","w","n","/">>)
\* ^/.+\.(?:php|ini|...|env)(?:\.(?:bak|old|orig|save)|~)$
BackupFile(p) == StartsWith(p, <<"/">>) /\ \E e \in {<<"p","h","p">>, <<"i","n","i">>, <<"c","f","g">>, <<"c","o","n","f">>, <<"y","m","l">>, <<"y","a","m","l">>, <<"j","s","o","n">>, <<"s","q","l">>, <<"l","o","g">>, <<"k","e","y">>, <<"e","n","v">>}, b \in {<<".","b","a","k">>, <<".","o","l","d">>, <<".","o","r","i","g">>, <<".","s","a","v","e">>, <<"~">>} : EndsWith(p, <<".">> \o e \o b) /\ Len(p) >= Len(e) + Len(b) + 3
\* ^/appsettings\.[^/]+\.json$
AppSettings(p) == StartsWith(p, <<"/","a","p","p","s","e","t","t","i","n","g","s",".">>) /\ EndsWith(p, <<".","j","s","o","n">>) /\ Len(p) >= 19 /\ NoSlash(SubSeq(p, 14, Len(p) - 5))

\* is_suspicious_path, were the table empty
never_suspicious_path(path) == FALSE

is_suspicious_path(path) ==
    IF path = <<>> THEN FALSE
    ELSE \E p \in {Lower(path)} :
         \/ p \in SuspiciousExactPaths
         \/ StartsWithAny(p, SuspiciousPrefixes)
         \/ EndsWithAny(p, SuspiciousSuffixes)
         \/ \E s \in SuspiciousSubstrings : Contains(p, s)
         \/ PhpSuffix(p) \/ EnvFile(p) \/ PhpInfoProbe(p) \/ DotFile(p) \/ BackupFile(p) \/ AppSettings(p)

\* ------------------------------------------------------------ WindowStats

\* The integer fields, the set fields and the Counter fields of WindowStats.__init__
IntFields == {"total_requests", "clean_requests", "content_requests", "suspicious_requests", "crosspromo_campaign_hits", "crosspromo_hits_with_internal_referrer", "crosspromo_hits_with_inferred_source", "crosspromo_hits_unattributed", "crosspromo_non_bot_hits_with_internal_referrer", "crosspromo_non_bot_hits_with_inferred_source", "crosspromo_non_bot_hits_unattributed", "crosspromo_inferred_verified_hits", "crosspromo_inferred_unverified_hits", "crosspromo_non_bot_inferred_verified_hits", "crosspromo_non_bot_inferred_unverified_hits", "crosspromo_hits_with_param_source", "crosspromo_non_bot_hits_with_param_source", "crosspromo_hits_with_param_source_without_referrer", "crosspromo_non_bot_hits_with_param_source_without_referrer", "crosspromo_source_mismatch_hits", "internal_crossproperty_referrals", "internal_crossproperty_non_bot_referrals", "internal_crossproperty_inferred_referrals", "internal_crossproperty_inferred_non_bot_referrals", "internal_crossproperty_inferred_verified_referrals", "internal_crossproperty_inferred_non_bot_verified_referrals", "internal_crossproperty_inferred_unverified_referrals", "internal_crossproperty_inferred_non_bot_unverified_referrals", "known_bot_requests", "crosspromo_known_bot_hits", "crosspromo_hits_with_any_referrer", "crosspromo_hits_without_referrer", "crosspromo_non_bot_hits_with_any_referrer", "crosspromo_non_bot_hits_without_referrer", "crosspromo_hits_without_referrer_known_bot", "crosspromo_suspected_automation_hits"}
SetFields == {"unique_ips", "clean_unique_ips", "content_unique_ips", "suspicious_unique_ips", "known_bot_unique_ips", "crosspromo_suspected_automation_unique_ips"}
CounterFields == {"status_counts", "page_counts", "content_section_counts", "organic_engine_counts", "organic_page_counts", "organic_section_counts", "organic_non_bot_engine_counts", "organic_non_bot_page_counts", "organic_non_bot_section_counts", "external_referrers", "not_found_pages", "clean_not_found_pages", "suspicious_paths", "suspicious_not_found_pages", "crosspromo_campaign_pages", "crosspromo_campaign_sources", "crosspromo_campaign_source_pages", "crosspromo_campaign_source_sections", "crosspromo_campaign_target_sections", "crosspromo_campaign_source_target_sections", "crosspromo_campaign_page_path_pairs", "crosspromo_non_bot_campaign_sources", "crosspromo_non_bot_campaign_source_pages", "crosspromo_non_bot_campaign_source_sections", "crosspromo_non_bot_campaign_target_sections", "crosspromo_non_bot_campaign_source_target_sections", "crosspromo_non_bot_campaign_page_path_pairs", "crosspromo_campaign_param_source_pages", "crosspromo_campaign_param_source_sections", "crosspromo_non_bot_campaign_param_source_pages", "crosspromo_non_bot_campaign_param_source_sections", "internal_crossproperty_target_sections", "internal_crossproperty_source_sections", "internal_crossproperty_target_pages", "internal_crossproperty_source_pages", "internal_crossproperty_non_bot_target_sections", "internal_crossproperty_non_bot_source_sections", "internal_crossproperty_non_bot_target_pages", "internal_crossproperty_non_bot_source_pages", "internal_crossproperty_inferred_target_sections", "internal_crossproperty_inferred_non_bot_target_sections", "internal_crossproperty_inferred_verified_target_sections", "internal_crossproperty_inferred_non_bot_verified_target_sections", "internal_crossproperty_inferred_unverified_target_sections", "internal_crossproperty_inferred_non_bot_unverified_target_sections", "crosspromo_known_bot_user_agents", "crosspromo_suspected_automation_user_agents"}

\* WindowStats.__init__: every counter 0, every set and Counter empty, no client history
NewWindowStats ==
    [f \in IntFields \cup SetFields \cup CounterFields \cup {"recent_content_paths_by_client"} |->
        IF f \in IntFields THEN 0 ELSE IF f \in SetFields THEN {} ELSE <<>>]

\* The statements a block of record executes on the counters of the window:
\* `self.f += 1` for every integer field f of ints, `self.s.add(x)` for every
\* <<s, x>> of adds, and for every entry of the list counts,
\* `for k in keys: self.c[k] += 1` on each Counter c of its counters
Statements(ints, adds, counts) == [ints |-> ints, adds |-> adds, counts |-> counts]
ForEach(keys, counters) == [keys |-> keys, counters |-> counters]
\* Where, were every statement executed whatever its condition
Unconditionally(cond, fs) == fs
Where(cond, fs) == IF cond THEN fs ELSE {}
When(cond, ks) == IF cond THEN ks ELSE <<>>
HasKeys(count) == count.keys # <<>>
RECURSIVE Flatten(_)
Flatten(lists) == IF lists = <<>> THEN <<>> ELSE Head(lists) \o Flatten(Tail(lists))
RECURSIVE IncAll(_, _)
IncAll(counter, keys) == IF keys = <<>> THEN counter ELSE IncAll(Inc(counter, Head(keys)), Tail(keys))
RECURSIVE CountAll(_, _, _)
CountAll(counter, c, counts) == IF counts = <<>> THEN counter ELSE CountAll(IF c \in Head(counts).counters THEN IncAll(counter, Head(counts).keys) ELSE counter, c, Tail(counts))

\* The window after the statements of the blocks, executed in order (no
\* integer field is incremented by two blocks of one call)
Apply(self, blocks) ==
    LET ints == UNION {blocks[i].ints : i \in DOMAIN blocks}
        adds == UNION {blocks[i].adds : i \in DOMAIN blocks}
        counts == SelectSeq(Flatten([i \in DOMAIN blocks |-> blocks[i].counts]), HasKeys)
    IN [f \in DOMAIN self |->
           IF f \in IntFields THEN (IF f \in ints THEN self[f] + 1 ELSE self[f])
           ELSE IF f \in SetFields THEN self[f] \cup {a[2] : a \in {b \in adds : b[1] = f}}
           ELSE IF f \in CounterFields THEN CountAll(self[f], f, counts)
           ELSE self[f]]

\* _client_key, were the address alone the key
key_by_address(ip, normalized_user_agent) == <<ip, <<>>>>

_client_key(ip, normalized_user_agent) == IF normalized_user_agent # <<>> THEN <<ip, normalized_user_agent>> ELSE <<ip, <<>>>>

\* _trim_recent_paths: pop from the left while the oldest entry is older than cutoff
\* _trim_recent_paths, were nothing ever popped
keep_recent_paths(paths, cutoff) == paths

\* _trim_recent_paths, were the entry at the cutoff popped too
RECURSIVE trim_at_cutoff(_, _)
trim_at_cutoff(paths, cutoff) == IF paths # <<>> /\ paths[1][1] <= cutoff THEN trim_at_cutoff(Tail(paths), cutoff) ELSE paths

RECURSIVE _trim_recent_paths(_, _)
_trim_recent_paths(paths, cutoff) == IF paths # <<>> /\ paths[1][1] < cutoff THEN _trim_recent_paths(Tail(paths), cutoff) ELSE paths

\* _has_recent_inferred_source_match, were the history never consulted
no_recent_inferred_source_match(hist, client_key, inferred_paths, ts) == [hist |-> hist, found |-> FALSE]

\* _has_recent_inferred_source_match: [hist, found]: the history after the
\* call (the client's queue trimmed, when the call gets that far) and the result
_has_recent_inferred_source_match(hist, client_key, inferred_paths, ts) ==
    IF inferred_paths = {} THEN [hist |-> hist, found |-> FALSE]
    ELSE IF client_key \notin DOMAIN hist \/ hist[client_key] = <<>> THEN [hist |-> hist, found |-> FALSE]
    ELSE LET cutoff == ts - INFERRED_SOURCE_LOOKBACK
             recent_paths == _trim_recent_paths(hist[client_key], cutoff)
         IN [hist |-> [hist EXCEPT ![client_key] = recent_paths],
             found |-> \E i \in 1..Len(recent_paths) : recent_paths[i][2] \in inferred_paths]

\* while len(recent_paths) > INFERRED_SOURCE_MAX_RECENT_PATHS: popleft()
RECURSIVE CapRecentPaths(_)
CapRecentPaths(paths) == IF Len(paths) > INFERRED_SOURCE_MAX_RECENT_PATHS THEN CapRecentPaths(Tail(paths)) ELSE paths

\* _remember_recent_content_path, were the path never remembered
forget_recent_content_path(hist, client_key, ts, path) == hist

\* _remember_recent_content_path: the history after the call
_remember_recent_content_path(hist, client_key, ts, path) ==
    LET recent_paths == IF client_key \in DOMAIN hist THEN hist[client_key] ELSE <<>>
        cutoff == ts - INFERRED_SOURCE_LOOKBACK
        kept == CapRecentPaths(Append(_trim_recent_paths(recent_paths, cutoff), <<ts, path>>))
    IN IF client_key \in DOMAIN hist THEN [hist EXCEPT ![client_key] = kept] ELSE hist @@ (client_key :> kept)

\* ----------------------------------------------------- WindowStats.record
\* record(self, ip, status, referrer, path, query, user_agent, ts) is modelled in
\* two parts: RecordArgs holds the values record derives from its arguments
\* alone (the classifications of its first lines and the lists of its
\* campaign branch), each computed once, and record applies them to the
\* window at time ts.

\* A set as a list, for the loops over a set (their effects commute)
RECURSIVE SeqOf(_)
SeqOf(s) == IF s = {} THEN <<>> ELSE LET x == CHOOSE y \in s : TRUE IN <<x>> \o SeqOf(s \ {x})
MapSeq(s, Op(_)) == [i \in 1..Len(s) |-> Op(s[i])]
NonEmpty(s) == s # <<>>
Arrow(a, b) == a \o <<"-",">">> \o b

\* The campaign marker test of record (and of is_suspected_crosspromo_automation)
IsCampaignTagged(query) == Contains(query, CAMPAIGN_MARKER)

\* The stripped, non-empty utm_content values of the query, in order
CampaignSources(query) == SelectSeq(MapSeq(parse_qs_get(query, <<"u","t","m","_","c","o","n","t","e","n","t">>), Strip), NonEmpty)
\* inferred_source_paths and normalized_inferred_paths of record
InferredSourcePaths(sources) == SelectSeq(MapSeq(sources, infer_internal_source_path), NonEmpty)
NormalizedInferredPaths(inferred_source_paths) == {normalize_path(p) : p \in Range(inferred_source_paths)} \ {<<>>}

\* crosspromo_known_bot, were suspected automation left out of it
known_bot_ua_alone(known_bot_ua, suspected_crosspromo_automation) == known_bot_ua

\* crosspromo_known_bot, were the known-bot user agents left out of it
suspected_automation_alone(known_bot_ua, suspected_crosspromo_automation) == suspected_crosspromo_automation

\* `crosspromo_known_bot = known_bot_ua or suspected_crosspromo_automation`
crosspromo_known_bot(known_bot_ua, suspected_crosspromo_automation) == known_bot_ua \/ suspected_crosspromo_automation

\* InferredOutcomeFields, were both outcomes counted for every hit
BothInferredOutcomeFields(inferred_source_verified, nb) == {"crosspromo_inferred_verified_hits", "crosspromo_inferred_unverified_hits"}

\* `if inferred_source_verified: self.crosspromo_inferred_verified_hits += 1 ...
\* else: self.crosspromo_inferred_unverified_hits += 1 ...`: the counters of the
\* outcome of the recency verification, nb being `not crosspromo_known_bot`
InferredOutcomeFields(inferred_source_verified, nb) ==
    IF inferred_source_verified
    THEN {"crosspromo_inferred_verified_hits"} \cup (IF nb THEN {"crosspromo_non_bot_inferred_verified_hits"} ELSE {})
    ELSE {"crosspromo_inferred_unverified_hits"} \cup (IF nb THEN {"crosspromo_non_bot_inferred_unverified_hits"} ELSE {})

\* What record computes from its arguments a = [ip, status, referrer, path,
\* query, user_agent] directly
RecordClassified(a) ==
    a @@ [asset |-> is_asset_path(a.path),
          suspicious_path |-> is_suspicious_path(a.path),
          internal_referrer_path |-> parse_internal_referrer_path(a.referrer),
          normalized_user_agent |-> normalize_user_agent(a.user_agent),
          has_referrer |-> HasReferrer(a.referrer),
          \* `f"utm_campaign={CROSSPROMO_CAMPAIGN_NAME}" in query and not is_crosspromo_redirect_hop(path)`
          campaign |-> IsCampaignTagged(a.query) /\ ~is_crosspromo_redirect_hop(a.path),
          target_section |-> classify_content_section(a.path),
          sources |-> CampaignSources(a.query),
          engine |-> detect_engine(a.referrer)]

\* What record computes from those: `not asset and path`, the bot tests on the
\* normalized user agent, the lists of the loop over utm_content
RecordDerived(c) ==
    c @@ [page |-> ~c.asset /\ c.path # <<>>,
          known_bot_ua |-> is_known_bot_user_agent(c.normalized_user_agent),
          client_key |-> _client_key(c.ip, c.normalized_user_agent),
          suspected_crosspromo_automation |-> is_suspected_crosspromo_automation(c.ip, c.normalized_user_agent, c.referrer, c.query),
          source_targets |-> MapSeq(c.sources, LAMBDA s : Arrow(s, c.target_section)),
          inferred_source_paths |-> InferredSourcePaths(c.sources),
          referrer_section |-> classify_content_section(c.internal_referrer_path)]

\* crosspromo_known_bot and the set normalized_inferred_paths
RecordInferred(d) ==
    d @@ [crosspromo_known_bot |-> crosspromo_known_bot(d.known_bot_ua, d.suspected_crosspromo_automation),
          normalized_inferred_paths |-> NormalizedInferredPaths(d.inferred_source_paths)]

\* `for normalized_source_path in normalized_inferred_paths`: the paths in the
\* order of the loop, their sections and their pairs with the landing path
ParamLists(path, param_paths) ==
    [param_paths |-> param_paths,
     param_sections |-> MapSeq(param_paths, classify_content_section),
     param_pairs |-> MapSeq(param_paths, LAMBDA p : Arrow(p, path))]
RecordParams(n) == n @@ ParamLists(n.path, SeqOf(n.normalized_inferred_paths))

\* The arguments of one record call and what record computes from them alone
RecordArgs(ip, status, referrer, path, query, user_agent) ==
    RecordParams(RecordInferred(RecordDerived(RecordClassified(
        [ip |-> ip, status |-> status, referrer |-> referrer, path |-> path, query |-> query, user_agent |-> user_agent]))))

\* The attribution of one campaign hit (record, `if internal_referrer_path: ...
\* elif inferred_source_paths: ... else: ...`) given the client histories hist:
\* [hist, statements], the histories after the recency check and the statements
\* executed; nb is `not crosspromo_known_bot`
RecordAttribution(hist, e, ts) ==
    LET nb == ~e.crosspromo_known_bot IN
    IF e.internal_referrer_path # <<>>
    THEN LET pair == Arrow(e.internal_referrer_path, e.path)
         IN [hist |-> hist, statements |-> Statements(
                  {"crosspromo_hits_with_internal_referrer"}
                      \cup Where(nb, {"crosspromo_non_bot_hits_with_internal_referrer"})
                      \cup Where(e.normalized_inferred_paths # {} /\ e.internal_referrer_path \notin e.normalized_inferred_paths, {"crosspromo_source_mismatch_hits"}),
                  {},
                  <<ForEach(<<e.internal_referrer_path>>, {"crosspromo_campaign_source_pages"} \cup Where(nb, {"crosspromo_non_bot_campaign_source_pages"})),
                    ForEach(<<e.referrer_section>>, {"crosspromo_campaign_source_sections"} \cup Where(nb, {"crosspromo_non_bot_campaign_source_sections"})),
                    ForEach(<<pair>>, {"crosspromo_campaign_page_path_pairs"} \cup Where(nb, {"crosspromo_non_bot_campaign_page_path_pairs"}))>>)]
    ELSE IF e.inferred_source_paths # <<>>
    THEN LET match == _has_recent_inferred_source_match(hist, e.client_key, e.normalized_inferred_paths, ts)
             inferred_source_verified == match.found
             \* the loop visits each distinct normalized path once, and counts the
             \* inferred cross-property referral at the first whose section differs
             crossproperty == e.target_section \in INTERNAL_CROSSPROPERTY_TARGETS /\ \E i \in 1..Len(e.param_sections) : e.param_sections[i] # e.target_section
         IN [hist |-> match.hist, statements |-> Statements(
                  {"crosspromo_hits_with_inferred_source"}
                      \cup Where(nb, {"crosspromo_non_bot_hits_with_inferred_source"})
                      \cup InferredOutcomeFields(inferred_source_verified, nb)
                      \cup Where(crossproperty, {"internal_crossproperty_inferred_referrals", IF inferred_source_verified THEN "internal_crossproperty_inferred_verified_referrals" ELSE "internal_crossproperty_inferred_unverified_referrals"})
                      \cup Where(crossproperty /\ nb, {"internal_crossproperty_inferred_non_bot_referrals", IF inferred_source_verified THEN "internal_crossproperty_inferred_non_bot_verified_referrals" ELSE "internal_crossproperty_inferred_non_bot_unverified_referrals"}),
                  {},
                  <<ForEach(When(crossproperty, <<e.target_section>>),
                            {"internal_crossproperty_inferred_target_sections", IF inferred_source_verified THEN "internal_crossproperty_inferred_verified_target_sections" ELSE "internal_crossproperty_inferred_unverified_target_sections"}
                                \cup Where(nb, {"internal_crossproperty_inferred_non_bot_target_sections", IF inferred_source_verified THEN "internal_crossproperty_inferred_non_bot_verified_target_sections" ELSE "internal_crossproperty_inferred_non_bot_unverified_target_sections"})),
                    ForEach(e.param_paths, {"crosspromo_campaign_source_pages"} \cup Where(nb, {"crosspromo_non_bot_campaign_source_pages"})),
                    ForEach(e.param_sections, {"crosspromo_campaign_source_sections"} \cup Where(nb, {"crosspromo_non_bot_campaign_source_sections"})),
                    ForEach(e.param_pairs, {"crosspromo_campaign_page_path_pairs"} \cup Where(nb, {"crosspromo_non_bot_campaign_page_path_pairs"}))>>)]
    ELSE [hist |-> hist, statements |-> Statements({"crosspromo_hits_unattributed"} \cup Where(nb, {"crosspromo_non_bot_hits_unattributed"}), {}, <<>>)]

\* The campaign bookkeeping of record (the body of `if f"utm_campaign=..." in
\* query and not is_crosspromo_redirect_hop(path)`), the attribution apart
RecordCampaignHit(e) ==
    LET nb == ~e.crosspromo_known_bot
        has_user_agent == e.normalized_user_agent # <<>>
        has_param_source == e.normalized_inferred_paths # {}
    IN Statements(
             {"crosspromo_campaign_hits"}
                 \cup Where(e.suspected_crosspromo_automation, {"crosspromo_suspected_automation_hits"})
                 \cup (IF e.has_referrer
                       THEN {"crosspromo_hits_with_any_referrer"} \cup Where(nb, {"crosspromo_non_bot_hits_with_any_referrer"})
                       ELSE {"crosspromo_hits_without_referrer"} \cup Where(nb, {"crosspromo_non_bot_hits_without_referrer"}))
                 \cup Where(e.crosspromo_known_bot, {"crosspromo_known_bot_hits"})
                 \cup Where(e.crosspromo_known_bot /\ ~e.has_referrer, {"crosspromo_hits_without_referrer_known_bot"})
                 \cup Where(has_param_source, {"crosspromo_hits_with_param_source"})
                 \cup Where(has_param_source /\ nb, {"crosspromo_non_bot_hits_with_param_source"})
                 \cup Where(has_param_source /\ ~e.has_referrer, {"crosspromo_hits_with_param_source_without_referrer"})
                 \cup Where(has_param_source /\ ~e.has_referrer /\ nb, {"crosspromo_non_bot_hits_with_param_source_without_referrer"}),
             Where(e.suspected_crosspromo_automation, {<<"crosspromo_suspected_automation_unique_ips", e.ip>>}),
             <<ForEach(<<e.path>>, {"crosspromo_campaign_pages"}),
               ForEach(When(e.suspected_crosspromo_automation /\ has_user_agent, <<e.normalized_user_agent>>), {"crosspromo_suspected_automation_user_agents"}),
               ForEach(<<e.target_section>>, {"crosspromo_campaign_target_sections"} \cup Where(nb, {"crosspromo_non_bot_campaign_target_sections"})),
               ForEach(When(e.crosspromo_known_bot /\ has_user_agent, <<e.normalized_user_agent>>), {"crosspromo_known_bot_user_agents"}),
               ForEach(e.sources, {"crosspromo_campaign_sources"} \cup Where(nb, {"crosspromo_non_bot_campaign_sources"})),
               ForEach(e.source_targets, {"crosspromo_campaign_source_target_sections"} \cup Where(nb, {"crosspromo_non_bot_campaign_source_target_sections"})),
               ForEach(When(has_param_source, e.param_paths), {"crosspromo_campaign_param_source_pages"} \cup Where(nb, {"crosspromo_non_bot_campaign_param_source_pages"})),
               ForEach(When(has_param_source, e.param_sections), {"crosspromo_campaign_param_source_sections"} \cup Where(nb, {"crosspromo_non_bot_campaign_param_source_sections"}))>>)

\* The first statements of record, were the content counters moved for every
\* page request, suspicious ones included
content_of_any_page(e) ==
    LET not_found == e.page /\ e.status = <<"4","0","4">> IN
    Statements(
          {"total_requests"}
              \cup Where(e.known_bot_ua, {"known_bot_requests"})
              \cup (IF e.suspicious_path THEN {"suspicious_requests"} ELSE {"clean_requests"})
              \cup Where(e.page, {"content_requests"}),
          {<<"unique_ips", e.ip>>}
              \cup Where(e.known_bot_ua, {<<"known_bot_unique_ips", e.ip>>})
              \cup (IF e.suspicious_path THEN {<<"suspicious_unique_ips", e.ip>>} ELSE {<<"clean_unique_ips", e.ip>>})
              \cup Where(e.page, {<<"content_unique_ips", e.ip>>}),
          <<ForEach(<<e.status>>, {"status_counts"}),
            ForEach(When(e.suspicious_path /\ e.path # <<>>, <<e.path>>), {"suspicious_paths"}),
            ForEach(When(e.page, <<e.target_section>>), {"content_section_counts"}),
            ForEach(When(e.page, <<e.path>>), {"page_counts"}),
            ForEach(When(not_found, <<e.path>>), {"not_found_pages", IF e.suspicious_path THEN "suspicious_not_found_pages" ELSE "clean_not_found_pages"})>>)

\* The first statements of record: the request, bot, suspicious/clean and
\* content counters, and the page and 404 Counters of `if not asset and path:`
RecordRequest(e) ==
    LET not_found == e.page /\ e.status = <<"4","0","4">> IN
    Statements(
          {"total_requests"}
              \cup Where(e.known_bot_ua, {"known_bot_requests"})
              \cup (IF e.suspicious_path THEN {"suspicious_requests"} ELSE {"clean_requests"} \cup Where(e.page, {"content_requests"})),
          {<<"unique_ips", e.ip>>}
              \cup Where(e.known_bot_ua, {<<"known_bot_unique_ips", e.ip>>})
              \cup (IF e.suspicious_path THEN {<<"suspicious_unique_ips", e.ip>>} ELSE {<<"clean_unique_ips", e.ip>>} \cup Where(e.page, {<<"content_unique_ips", e.ip>>})),
          <<ForEach(<<e.status>>, {"status_counts"}),
            ForEach(When(e.suspicious_path /\ e.path # <<>>, <<e.path>>), {"suspicious_paths"}),
            ForEach(When(~e.suspicious_path /\ e.page, <<e.target_section>>), {"content_section_counts"}),
            ForEach(When(e.page, <<e.path>>), {"page_counts"}),
            ForEach(When(not_found, <<e.path>>), {"not_found_pages", IF e.suspicious_path THEN "suspicious_not_found_pages" ELSE "clean_not_found_pages"})>>)

\* The test of line 692, were the two sections not compared
referral_to_any_target(target_section, source_section) == target_section \in INTERNAL_CROSSPROPERTY_TARGETS

\* `target_section in INTERNAL_CROSSPROPERTY_TARGETS and source_section != target_section`
IsCrosspropertyReferral(target_section, source_section) == target_section \in INTERNAL_CROSSPROPERTY_TARGETS /\ source_section # target_section

\* The referrer statements of record: `if referrer and referrer != "-": ...`
\* and `if internal_referrer_path and not asset and path and not suspicious_path: ...`
RecordReferrals(e) ==
    LET organic == e.has_referrer /\ e.engine # <<>> /\ e.page /\ ~e.suspicious_path
        crossproperty == e.internal_referrer_path # <<>> /\ e.page /\ ~e.suspicious_path /\ IsCrosspropertyReferral(e.target_section, e.referrer_section)
        nb == ~e.known_bot_ua
    IN Statements(
             Where(crossproperty, {"internal_crossproperty_referrals"}) \cup Where(crossproperty /\ nb, {"internal_crossproperty_non_bot_referrals"}),
             {},
             <<ForEach(When(e.has_referrer /\ e.internal_referrer_path = <<>>, <<e.referrer>>), {"external_referrers"}),
               ForEach(When(organic, <<e.engine>>), {"organic_engine_counts"} \cup Where(nb, {"organic_non_bot_engine_counts"})),
               ForEach(When(organic, <<e.path>>), {"organic_page_counts"} \cup Where(nb, {"organic_non_bot_page_counts"})),
               ForEach(When(organic, <<e.target_section>>), {"organic_section_counts"} \cup Where(nb, {"organic_non_bot_section_counts"})),
               ForEach(When(crossproperty, <<e.target_section>>), {"internal_crossproperty_target_sections"} \cup Where(nb, {"internal_crossproperty_non_bot_target_sections"})),
               ForEach(When(crossproperty, <<e.referrer_section>>), {"internal_crossproperty_source_sections"} \cup Where(nb, {"internal_crossproperty_non_bot_source_sections"})),
               ForEach(When(crossproperty, <<e.path>>), {"internal_crossproperty_target_pages"} \cup Where(nb, {"internal_crossproperty_non_bot_target_pages"})),
               ForEach(When(crossproperty, <<e.internal_referrer_path>>), {"internal_crossproperty_source_pages"} \cup Where(nb, {"internal_crossproperty_non_bot_source_pages"}))>>)

\* record, were the path of the request remembered before the recency check
\* of its campaign branch
remember_before_attribution(self, e, ts) ==
    LET campaign_hit == e.page /\ e.campaign
        remembered == IF e.page /\ ~e.suspicious_path THEN _remember_recent_content_path(self.recent_content_paths_by_client, e.client_key, ts, e.path) ELSE self.recent_content_paths_by_client
        attribution == RecordAttribution(remembered, e, ts)
        counted == Apply(self, <<RecordRequest(e)>> \o When(campaign_hit, <<RecordCampaignHit(e), attribution.statements>>) \o <<RecordReferrals(e)>>)
    IN [counted EXCEPT !.recent_content_paths_by_client = IF campaign_hit THEN attribution.hist ELSE remembered]

\* record, on the arguments e = RecordArgs(ip, status, referrer, path, query, user_agent) and ts
record(self, e, ts) ==
    LET campaign_hit == e.page /\ e.campaign
        attribution == RecordAttribution(self.recent_content_paths_by_client, e, ts)
        counted == Apply(self, <<RecordRequest(e)>> \o When(campaign_hit, <<RecordCampaignHit(e), attribution.statements>>) \o <<RecordReferrals(e)>>)
        checked == IF campaign_hit THEN attribution.hist ELSE self.recent_content_paths_by_client
    IN [counted EXCEPT !.recent_content_paths_by_client =
            IF e.page /\ ~e.suspicious_path THEN _remember_recent_content_path(checked, e.client_key, ts, e.path) ELSE checked]

\* ---------------------------------------------------- WindowStats.summary

Max0(n) == IF n > 0 THEN n ELSE 0

\* content_sections = {name: int(self.content_section_counts.get(name, 0)) for name in CONTENT_SECTION_NAMES}
content_sections(self) == [name \in Range(CONTENT_SECTION_NAMES) |-> Get(self.content_section_counts, name)]

\* The scalar fields of the summary dictionary that the report's headline
\* and the window comparison read
summary(self) ==
    [total_requests |-> self.total_requests,
     unique_ips |-> Cardinality(self.unique_ips),
     clean_requests |-> self.clean_requests,
     content_requests |-> self.content_requests,
     suspicious_requests |-> self.suspicious_requests,
     not_found_requests |-> Sum(self.not_found_pages),
     suspicious_404 |-> Sum(self.suspicious_not_found_pages),
     clean_404 |-> Sum(self.clean_not_found_pages),
     organic_referrals |-> Sum(self.organic_engine_counts),
     organic_non_bot_referrals |-> Sum(self.organic_non_bot_engine_counts),
     crosspromo_campaign_hits |-> self.crosspromo_campaign_hits,
     crosspromo_source_attributed_hits |-> self.crosspromo_hits_with_internal_referrer + self.crosspromo_hits_with_inferred_source,
     crosspromo_hits_with_internal_referrer |-> self.crosspromo_hits_with_internal_referrer,
     crosspromo_hits_with_inferred_source |-> self.crosspromo_hits_with_inferred_source,
     crosspromo_inferred_verified_hits |-> self.crosspromo_inferred_verified_hits,
     crosspromo_inferred_unverified_hits |-> self.crosspromo_inferred_unverified_hits,
     crosspromo_hits_unattributed |-> self.crosspromo_hits_unattributed,
     crosspromo_known_bot_hits |-> self.crosspromo_known_bot_hits,
     crosspromo_non_bot_hits |-> Max0(self.crosspromo_campaign_hits - self.crosspromo_known_bot_hits),
     crosspromo_suspected_automation_hits |-> self.crosspromo_suspected_automation_hits,
     internal_crossproperty_referrals |-> self.internal_crossproperty_referrals]

\* ------------------------------------------------ build_window_comparison

\* Python's None, and a percentage as an integer number of hundredths
\* (round(x, 2) keeps two decimals)
None == [null |-> TRUE, x100 |-> 0]
Pct(x100) == [null |-> FALSE, x100 |-> x100]

\* RoundPct, were the quotient cut off after two decimals
TruncPct(n, d) == (10000 * n) \div d

\* round(n / d * 100, 2) in hundredths, d > 0: the nearest integer to
\* 10000 * n / d, a tie going to the even one
RoundPct(n, d) ==
    LET num == 2 * 10000 * n + d
        q == num \div (2 * d)
    IN IF num % (2 * d) = 0 /\ q % 2 # 0 THEN q - 1 ELSE q

\* safe_pct_change, were growth from zero reported as 100.0
sentinel_pct_change(current, previous) == IF previous <= 0 THEN (IF current > 0 THEN Pct(10000) ELSE None) ELSE Pct(RoundPct(current - previous, previous))

safe_pct_change(current, previous) == IF previous <= 0 THEN None ELSE Pct(RoundPct(current - previous, previous))

\* Some of the metric names build_window_comparison compares (its list
\* `metrics`); each is treated alike by the loop
COMPARED_METRICS == {"total_requests", "content_requests", "crosspromo_campaign_hits"}

\* dict.get(key, 0)
GetInt(d, key) == IF key \in DOMAIN d THEN d[key] ELSE 0

\* The deltas of build_window_comparison: for every compared metric, the
\* entries deltas[metric] and deltas[metric + "_pct"]
build_window_comparison(current_summary, previous_summary) ==
    [metric \in COMPARED_METRICS |->
        LET current_value == GetInt(current_summary, metric)
            previous_value == GetInt(previous_summary, metric)
        IN [delta |-> current_value - previous_value, pct |-> safe_pct_change(current_value, previous_value)]]

\* ------------------------------------------------------------- timestamps

\* datetime.strptime(ts, "%d/%b/%Y:%H:%M:%S %z"): the text must match
\*   (3[0-1]|[1-2]\d|0[1-9]|[1-9]| [1-9])/(jan|...|dec)/(\d\d\d\d):(2[0-3]|[0-1]\d|\d):([0-5]\d|\d):(6[0-1]|[0-5]\d|\d)\s+([+-]\d\d:?[0-5]\d(:?[0-5]\d)?|Z)
\* to its end, the month whatever the case of its letters. No field holds the
\* separator that follows it, so each field ends at the first separator.
MONTHS == <<<<"j","a","n">>, <<"f","e","b">>, <<"m","a","r">>, <<"a","p","r">>, <<"m","a","y">>, <<"j","u","n">>, <<"j","u","l">>, <<"a","u","g">>, <<"s","e","p">>, <<"o","c","t">>, <<"n","o","v">>, <<"d","e","c">>>>
RECURSIVE ToInt(_)
ToInt(s) == IF s = <<>> THEN 0 ELSE 10 * ToInt(Upto(s, Len(s) - 1)) + (CHOOSE n \in 0..9 : <<"0", "1", "2", "3", "4", "5", "6", "7", "8", "9">>[n + 1] = s[Len(s)])
\* One or two digits of a value in lo..hi: the value, and -1 for any other text
NumberField(s, lo, hi) == IF Len(s) \in {1, 2} /\ AllDigits(s) /\ ToInt(s) \in lo..hi THEN ToInt(s) ELSE -1
\* %d: a day of 1..31 in one or two digits, 00 excluded, or a blank and a
\* digit; %b: the number of the month; %Y: four digits
DateField(directive, s) ==
    IF directive = "d" THEN (IF Len(s) = 2 /\ s[1] = " " THEN NumberField(Tail(s), 1, 9) ELSE NumberField(s, 1, 31))
    ELSE IF directive = "b" THEN (IF \E m \in 1..12 : MONTHS[m] = Lower(s) THEN CHOOSE m \in 1..12 : MONTHS[m] = Lower(s) ELSE -1)
    ELSE IF Len(s) = 4 /\ AllDigits(s) THEN ToInt(s) ELSE -1
\* %z: the offset in seconds, and NoZone for a text that is no zone; hours
\* and minutes, with or without a colon, and optional seconds
NoZone == 360000
ZoneSeconds(s) ==
    LET digits == SelectSeq(s, LAMBDA c : c # ":")
        colons == {i \in 1..Len(s) : s[i] = ":"}
    IN IF \/ Len(digits) \notin {4, 6} \/ ~AllDigits(digits)
          \/ colons \notin (IF Len(digits) = 4 THEN {{}, {3}} ELSE {{}, {3, 6}})
          \/ ToInt(SubSeq(digits, 3, 4)) > 59 \/ ToInt(SubSeq(digits, 5, Len(digits))) > 59
       THEN NoZone
       ELSE 3600 * ToInt(SubSeq(digits, 1, 2)) + 60 * ToInt(SubSeq(digits, 3, 4)) + ToInt(SubSeq(digits, 5, Len(digits)))
ZoneField(s) ==
    IF s = <<"Z">> THEN 0
    ELSE IF s = <<>> \/ s[1] \notin {"+", "-"} \/ ZoneSeconds(Tail(s)) = NoZone THEN NoZone
    ELSE IF s[1] = "-" THEN 0 - ZoneSeconds(Tail(s)) ELSE ZoneSeconds(Tail(s))

\* The proleptic Gregorian calendar of datetime: date.toordinal
DaysInMonth(y, m) == IF m = 2 THEN (IF y % 4 = 0 /\ (y % 100 # 0 \/ y % 400 = 0) THEN 29 ELSE 28) ELSE IF m \in {4, 6, 9, 11} THEN 30 ELSE 31
RECURSIVE DaysBeforeMonth(_, _)
DaysBeforeMonth(y, m) == IF m = 1 THEN 0 ELSE DaysBeforeMonth(y, m - 1) + DaysInMonth(y, m - 1)
ToOrdinal(y, m, d) == 365 * (y - 1) + (y - 1) \div 4 - (y - 1) \div 100 + (y - 1) \div 400 + DaysBeforeMonth(y, m) + d
\* date.min and date.max as ordinals, and 1970-01-01
MinOrdinal == 1
MaxOrdinal == 3652059
EpochOrdinal == 719163

\* The fields of the text: day/month/year:hour:minute:second zone
TimestampFields(by_slash, by_colon, second_zone) ==
    [d |-> DateField("d", by_slash[1]),
     b |-> DateField("b", PartitionStr(by_slash[2], <<"/">>)[1]),
     Y |-> DateField("Y", by_colon[1]),
     H |-> NumberField(PartitionStr(by_colon[2], <<":">>)[1], 0, 23),
     M |-> NumberField(PartitionStr(PartitionStr(by_colon[2], <<":">>)[2], <<":">>)[1], 0, 59),
     S |-> NumberField(Upto(second_zone, FindAnyFrom(second_zone, WS, 1) - 1), 0, 61),
     blank |-> FindAnyFrom(second_zone, WS, 1) <= Len(second_zone),
     z |-> ZoneField(LStripChars(From(second_zone, FindAnyFrom(second_zone, WS, 1)), WS))]
SplitTimestamp(by_slash, by_colon) ==
    TimestampFields(by_slash, by_colon, PartitionStr(PartitionStr(by_colon[2], <<":">>)[2], <<":">>)[2])
\* strptime(...).astimezone(timezone.utc) on the fields: ValueError for a
\* text off the format, a date that is none, a second 60 or 61 or an offset of
\* a day or more; OverflowError when the instant in UTC is before date.min or
\* after date.max; else the instant, in seconds since 1970-01-01T00:00:00Z (the
\* instants of the model lie between 1902 and 2038)
InUtc(ordinal, second_of_day) ==
    LET day == ordinal + (IF second_of_day < 0 THEN -1 ELSE IF second_of_day >= 86400 THEN 1 ELSE 0)
    IN IF day < MinOrdinal \/ day > MaxOrdinal THEN [error |-> "OverflowError", ts |-> 0]
       ELSE [error |-> "", ts |-> (ordinal - EpochOrdinal) * 86400 + second_of_day]
FieldsInUtc(f) ==
    IF \/ f.d = -1 \/ f.b = -1 \/ f.Y = -1 \/ f.H = -1 \/ f.M = -1 \/ f.S = -1 \/ ~f.blank \/ f.z = NoZone
       \/ f.Y = 0 \/ f.S > 59 \/ f.z >= 86400 \/ f.z <= -86400
    THEN [error |-> "ValueError", ts |-> 0]
    ELSE IF f.d > DaysInMonth(f.Y, f.b) THEN [error |-> "ValueError", ts |-> 0]
    ELSE InUtc(ToOrdinal(f.Y, f.b, f.d), 3600 * f.H + 60 * f.M + f.S - f.z)
ParseTimestamp(text) ==
    FieldsInUtc(SplitTimestamp(PartitionStr(text, <<"/">>), PartitionStr(PartitionStr(PartitionStr(text, <<"/">>)[2], <<"/">>)[2], <<":">>)))

\* ------------------------------------------------------------ LOG_PATTERN

\* The elements of a pattern: a literal text ("lit"); a greedy run of at
\* least min characters outside a set ("run"), and \d{3} ("digits"), each kept
\* as a group when it has a name.
\* ^(?P<ip>\S+) \S+ \S+ \[(?P<ts>[^\]]+)\] "(?P<req>[^"]*)" (?P<status>\d{3}) \S+ "(?P<ref>[^"]*)" "(?P<ua>[^"]*)"
LOG_PATTERN ==
    << [kind |-> "run", excluded |-> WS, min |-> 1, group |-> "ip"], [kind |-> "lit", text |-> <<" ">>], [kind |-> "run", excluded |-> WS, min |-> 1, group |-> ""], [kind |-> "lit", text |-> <<" ">>], [kind |-> "run", excluded |-> WS, min |-> 1, group |-> ""], [kind |-> "lit", text |-> <<" ","[">>],
       [kind |-> "run", excluded |-> {"]"}, min |-> 1, group |-> "ts"], [kind |-> "lit", text |-> <<"]", " ", "\"">>],
       [kind |-> "run", excluded |-> {"\""}, min |-> 0, group |-> "req"], [kind |-> "lit", text |-> <<"\"", " ">>],
       [kind |-> "digits", min |-> 3, group |-> "status"], [kind |-> "lit", text |-> <<" ">>], [kind |-> "run", excluded |-> WS, min |-> 1, group |-> ""], [kind |-> "lit", text |-> <<" ", "\"">>],
       [kind |-> "run", excluded |-> {"\""}, min |-> 0, group |-> "ref"], [kind |-> "lit", text |-> <<"\"", " ", "\"">>],
       [kind |-> "run", excluded |-> {"\""}, min |-> 0, group |-> "ua"], [kind |-> "lit", text |-> <<"\"">>] >>

\* re.match of a pattern of such elements at the start of s: the groups, and
\* NoMatch. Every run is followed by a literal that starts with a character
\* the run excludes, so the greedy run is the only way to match.
NoMatch == [matched |-> FALSE]
RunLength(element, s) ==
    IF element.kind = "digits" THEN (IF Len(s) >= 3 /\ AllDigits(Upto(s, 3)) THEN 3 ELSE 0)
    ELSE FindAnyFrom(s, element.excluded, 1) - 1
RECURSIVE Match(_, _, _)
MatchRun(elements, s, groups, n) ==
    IF n < Head(elements).min THEN NoMatch
    ELSE Match(Tail(elements), From(s, n + 1), IF Head(elements).group = "" THEN groups ELSE groups @@ (Head(elements).group :> Upto(s, n)))
Match(elements, s, groups) ==
    IF elements = <<>> THEN groups
    ELSE IF Head(elements).kind = "lit"
    THEN (IF StartsWith(s, Head(elements).text) THEN Match(Tail(elements), From(s, Len(Head(elements).text) + 1), groups) ELSE NoMatch)
    ELSE MatchRun(elements, s, groups, RunLength(Head(elements), s))

\* -------------------------------------------------------------- log files

LOG_FILES == <<"/var/log/nginx/web-ceo.access.log", "/var/log/nginx/web-ceo.access.log.1">>

\* read_log_lines(path) on a file [state, lines]: the lines returned or the
\* exception raised, and the number of runs of `sudo -n cat`. The state of the
\* file, as the process finds it: missing; unsearchable (it exists in a
\* directory the process may not search, and os.path.exists answers False);
\* readable; denied (open raises PermissionError) with a sudo that answers or
\* fails; unreadable (open raises another OSError)
read_log_lines(file) ==
    IF file.state \in {"missing", "unsearchable"} THEN [lines |-> <<>>, raised |-> "", sudo |-> 0]
    ELSE IF file.state = "readable" THEN [lines |-> file.lines, raised |-> "", sudo |-> 0]
    ELSE IF file.state = "denied, sudo reads" THEN [lines |-> file.lines, raised |-> "", sudo |-> 1]
    ELSE IF file.state = "denied, sudo fails" THEN [lines |-> <<>>, raised |-> "CalledProcessError", sudo |-> 1]
    ELSE [lines |-> <<>>, raised |-> "OSError", sudo |-> 0]

\* ------------------------------------------------------------ the log lines

IP_HOME == <<"1","9","8",".","5","1",".","1","0","0",".","7">>
IP_DATACENTER == <<"4","3",".","1","3","0",".","0",".","9">>
UA_BROWSER == <<"M","o","z","i","l","l","a","/","5",".","0"," ","(","X","1","1",";"," ","L","i","n","u","x"," ","x","8","6","_","6","4",")"," ","F","i","r","e","f","o","x","/","1","2","0",".","0">>
UA_CURL == <<"c","u","r","l","/","8",".","4",".","0">>
UA_SPOOFED_MOBILE == <<"M","o","z","i","l","l","a","/","5",".","0"," ","(","i","P","h","o","n","e",";"," ","C","P","U"," ","i","P","h","o","n","e"," ","O","S"," ","1","3","_","2","_","3"," ","l","i","k","e"," ","M","a","c"," ","O","S"," ","X",")"," ","A","p","p","l","e","W","e","b","K","i","t","/","6","0","5",".","1",".","1","5"," ","(","K","H","T","M","L",","," ","l","i","k","e"," ","G","e","c","k","o",")"," ","V","e","r","s","i","o","n","/","1","3",".","0",".","3"," ","M","o","b","i","l","e","/","1","5","E","1","4","8"," ","S","a","f","a","r","i","/","6","0","4",".","1">>
NO_REFERRER == <<"-">>
REF_BLOG_FOO == <<"h","t","t","p","s",":","/","/","d","e","v","t","o","o","l","b","o","x",".","d","e","d","y","n",".","i","o","/","b","l","o","g","/","f","o","o","/">>
REF_DATEKIT_ABOUT == <<"h","t","t","p","s",":","/","/","d","e","v","t","o","o","l","b","o","x",".","d","e","d","y","n",".","i","o","/","d","a","t","e","k","i","t","/","a","b","o","u","t">>
REF_GOOGLE == <<"h","t","t","p","s",":","/","/","w","w","w",".","g","o","o","g","l","e",".","c","o","m","/","s","e","a","r","c","h","?","q","=","x">>
REF_WWW_HOME == <<"h","t","t","p",":","/","/","W","W","W",".","d","e","v","t","o","o","l","b","o","x",".","d","e","d","y","n",".","i","o">>
REF_SITE_PORT == <<"h","t","t","p","s",":","/","/","d","e","v","t","o","o","l","b","o","x",".","d","e","d","y","n",".","i","o",":","8","4","4","3","/","b","l","o","g","/","f","o","o">>
REQ_BLOG_FOO == <<"G","E","T"," ","/","b","l","o","g","/","f","o","o"," ","H","T","T","P","/","1",".","1">>
REQ_BLOG_MY_POST == <<"G","E","T"," ","/","b","l","o","g","/","m","y","-","p","o","s","t"," ","H","T","T","P","/","1",".","1">>
REQ_TOOLS == <<"G","E","T"," ","/","t","o","o","l","s","/","j","s","o","n","-","f","o","r","m","a","t","t","e","r"," ","H","T","T","P","/","1",".","1">>
REQ_DATEKIT == <<"G","E","T"," ","/","d","a","t","e","k","i","t"," ","H","T","T","P","/","1",".","1">>
REQ_DATEKIT_ENV == <<"G","E","T"," ","/","d","a","t","e","k","i","t","/",".","e","n","v"," ","H","T","T","P","/","1",".","1">>
REQ_DATEKIT_JS == <<"G","E","T"," ","/","d","a","t","e","k","i","t","/","a","p","p",".","j","s"," ","H","T","T","P","/","1",".","1">>
REQ_WP_LOGIN == <<"G","E","T"," ","/","w","p","-","l","o","g","i","n",".","p","h","p"," ","H","T","T","P","/","1",".","1">>
REQ_NEXT_CHUNK == <<"G","E","T"," ","/","_","n","e","x","t","/","s","t","a","t","i","c","/","c","h","u","n","k","s","/","m","a","i","n",".","j","s"," ","H","T","T","P","/","1",".","1">>
REQ_HIT_FOO == <<"G","E","T"," ","/","d","a","t","e","k","i","t","/","?","u","t","m","_","c","a","m","p","a","i","g","n","=","c","r","o","s","s","p","r","o","m","o","-","t","o","p","-","o","r","g","a","n","i","c","&","u","t","m","_","c","o","n","t","e","n","t","=","f","o","o"," ","H","T","T","P","/","1",".","1">>
REQ_HIT_FOO_OR_TOOLS == <<"G","E","T"," ","/","d","a","t","e","k","i","t","/","?","u","t","m","_","c","a","m","p","a","i","g","n","=","c","r","o","s","s","p","r","o","m","o","-","t","o","p","-","o","r","g","a","n","i","c","&","u","t","m","_","c","o","n","t","e","n","t","=","f","o","o","&","u","t","m","_","c","o","n","t","e","n","t","=","/","t","o","o","l","s","/","j","s","o","n","-","f","o","r","m","a","t","t","e","r"," ","H","T","T","P","/","1",".","1">>
REQ_HIT_BARE == <<"G","E","T"," ","/","d","a","t","e","k","i","t","?","u","t","m","_","c","a","m","p","a","i","g","n","=","c","r","o","s","s","p","r","o","m","o","-","t","o","p","-","o","r","g","a","n","i","c"," ","H","T","T","P","/","1",".","1">>
REQ_HIT_FOREIGN == <<"G","E","T"," ","/","d","a","t","e","k","i","t","?","u","t","m","_","c","a","m","p","a","i","g","n","=","c","r","o","s","s","p","r","o","m","o","-","t","o","p","-","o","r","g","a","n","i","c","&","u","t","m","_","c","o","n","t","e","n","t","=","h","t","t","p","s",":","/","/","e","v","i","l",".","e","x","a","m","p","l","e","/","x"," ","H","T","T","P","/","1",".","1">>
REQ_HOP == <<"G","E","T"," ","/","g","o","/","d","a","t","e","k","i","t","/","?","u","t","m","_","c","a","m","p","a","i","g","n","=","c","r","o","s","s","p","r","o","m","o","-","t","o","p","-","o","r","g","a","n","i","c","&","u","t","m","_","c","o","n","t","e","n","t","=","f","o","o"," ","H","T","T","P","/","1",".","1">>
REQ_ASSET_HIT == <<"G","E","T"," ","/","o","g","/","d","a","t","e","k","i","t",".","p","n","g","?","u","t","m","_","c","a","m","p","a","i","g","n","=","c","r","o","s","s","p","r","o","m","o","-","t","o","p","-","o","r","g","a","n","i","c","&","u","t","m","_","c","o","n","t","e","n","t","=","f","o","o"," ","H","T","T","P","/","1",".","1">>
STATUS_200 == <<"2","0","0">>
STATUS_404 == <<"4","0","4">>

\* One matched line of the access log (the groups of LOG_PATTERN, the timestamp apart)
Line(ip, req, status, ref, ua) == [ip |-> ip, req |-> req, status |-> status, ref |-> ref, ua |-> ua]

\* The lines of the specification Spec: page views, probes, an organic
\* landing, in-site clicks, and campaign-tagged requests of every kind
Lines ==
    { Line(IP_HOME, REQ_BLOG_FOO, STATUS_200, NO_REFERRER, UA_BROWSER),
      Line(IP_HOME, REQ_TOOLS, STATUS_200, NO_REFERRER, UA_BROWSER),
      Line(IP_HOME, REQ_WP_LOGIN, STATUS_404, NO_REFERRER, UA_BROWSER),
      Line(IP_HOME, REQ_NEXT_CHUNK, STATUS_404, NO_REFERRER, UA_BROWSER),
      Line(IP_HOME, REQ_BLOG_MY_POST, STATUS_200, REF_GOOGLE, UA_BROWSER),
      Line(IP_HOME, REQ_BLOG_MY_POST, STATUS_404, NO_REFERRER, UA_CURL),
      Line(IP_HOME, REQ_DATEKIT, STATUS_200, REF_BLOG_FOO, UA_BROWSER),
      Line(IP_HOME, REQ_DATEKIT, STATUS_200, REF_DATEKIT_ABOUT, UA_BROWSER),
      Line(IP_HOME, REQ_TOOLS, STATUS_200, REF_BLOG_FOO, UA_BROWSER),
      Line(IP_HOME, REQ_DATEKIT_ENV, STATUS_404, REF_BLOG_FOO, UA_BROWSER),
      Line(IP_HOME, REQ_DATEKIT_JS, STATUS_200, REF_BLOG_FOO, UA_BROWSER),
      Line(IP_HOME, REQ_HIT_FOO, STATUS_200, NO_REFERRER, UA_BROWSER),
      Line(IP_HOME, REQ_HIT_FOO, STATUS_200, REF_BLOG_FOO, UA_BROWSER),
      Line(IP_HOME, REQ_HIT_FOO, STATUS_200, NO_REFERRER, UA_CURL),
      Line(IP_HOME, REQ_HIT_FOO, STATUS_200, NO_REFERRER, UA_SPOOFED_MOBILE),
      Line(IP_DATACENTER, REQ_HIT_FOO, STATUS_200, NO_REFERRER, UA_SPOOFED_MOBILE),
      Line(IP_DATACENTER, REQ_HIT_FOO, STATUS_200, REF_GOOGLE, UA_SPOOFED_MOBILE),
      Line(IP_DATACENTER, REQ_HIT_FOO, STATUS_200, NO_REFERRER, UA_BROWSER),
      Line(IP_HOME, REQ_HIT_BARE, STATUS_200, NO_REFERRER, UA_BROWSER),
      Line(IP_HOME, REQ_HIT_BARE, STATUS_200, REF_GOOGLE, UA_BROWSER),
      Line(IP_HOME, REQ_HIT_BARE, STATUS_200, REF_WWW_HOME, UA_BROWSER),
      Line(IP_HOME, REQ_HIT_FOO, STATUS_200, REF_SITE_PORT, UA_BROWSER),
      Line(IP_HOME, REQ_HIT_FOREIGN, STATUS_200, NO_REFERRER, UA_BROWSER),
      Line(IP_HOME, REQ_HOP, STATUS_200, REF_BLOG_FOO, UA_BROWSER),
      Line(IP_HOME, REQ_ASSET_HIT, STATUS_200, REF_BLOG_FOO, UA_BROWSER),
      Line(IP_HOME, REQ_ASSET_HIT, STATUS_200, NO_REFERRER, UA_BROWSER) }

\* The lines of the specification SpecRecency: the page views of two clients
\* and the parameter-attributed hits of one
RecencyLines ==
    { Line(IP_HOME, REQ_BLOG_FOO, STATUS_200, NO_REFERRER, UA_BROWSER),
      Line(IP_HOME, REQ_TOOLS, STATUS_200, NO_REFERRER, UA_BROWSER),
      Line(IP_DATACENTER, REQ_BLOG_FOO, STATUS_200, NO_REFERRER, UA_BROWSER),
      Line(IP_HOME, REQ_HIT_FOO, STATUS_200, NO_REFERRER, UA_BROWSER),
      Line(IP_HOME, REQ_HIT_FOO, STATUS_200, REF_GOOGLE, UA_BROWSER),
      Line(IP_HOME, REQ_HIT_FOO_OR_TOOLS, STATUS_200, NO_REFERRER, UA_BROWSER),
      Line(IP_HOME, REQ_ASSET_HIT, STATUS_200, NO_REFERRER, UA_BROWSER) }

\* The referrers of the specification SpecReferrers: a page of the site whose
\* query names a search engine, pages of another site with and without the
\* name of an engine in the path, and an engine whose result page names another
REF_SITE_ENGINE_QUERY == <<"h","t","t","p","s",":","/","/","d","e","v","t","o","o","l","b","o","x",".","d","e","d","y","n",".","i","o","/","b","l","o","g","/","f","o","o","?","f","r","o","m","=","g","o","o","g","l","e",".","c","o","m">>
REF_OTHER_ENGINE_PATH == <<"h","t","t","p","s",":","/","/","n","e","w","s",".","e","x","a","m","p","l","e",".","o","r","g","/","b","e","s","t","-","o","f","-","b","i","n","g",".","c","o","m","-","a","l","t","e","r","n","a","t","i","v","e","s">>
REF_OTHER == <<"h","t","t","p","s",":","/","/","n","e","w","s",".","e","x","a","m","p","l","e",".","o","r","g","/">>
REF_BING_QUERY_GOOGLE == <<"h","t","t","p","s",":","/","/","w","w","w",".","b","i","n","g",".","c","o","m","/","s","e","a","r","c","h","?","q","=","g","o","o","g","l","e",".","c","o","m">>

\* The lines of the specification SpecReferrers: the views of a blog post
\* arriving from each referrer, by a browser and by curl
ReferrerLines ==
    {Line(IP_HOME, REQ_BLOG_MY_POST, STATUS_200, ref, ua) :
        ref \in {NO_REFERRER, REF_GOOGLE, REF_BING_QUERY_GOOGLE, REF_BLOG_FOO, REF_SITE_ENGINE_QUERY, REF_OTHER_ENGINE_PATH, REF_OTHER},
        ua \in {UA_BROWSER, UA_CURL}}

\* The user agents of a request that sends none: nginx writes "-", a client
\* may send an empty one
UA_DASH == <<"-">>
UA_EMPTY == <<>>
\* The lines of the specification SpecClients: a view of /blog/foo and a hit
\* that names it, by each of five senders: four clients, the last of them
\* without a user agent, written in two ways
ClientLines ==
    {Line(sender[1], req, STATUS_200, NO_REFERRER, sender[2]) :
        sender \in {<<IP_HOME, UA_BROWSER>>, <<IP_HOME, UA_CURL>>, <<IP_DATACENTER, UA_BROWSER>>, <<IP_HOME, UA_DASH>>, <<IP_HOME, UA_EMPTY>>},
        req \in {REQ_BLOG_FOO, REQ_HIT_FOO}}

\* The lines of the specification SpecSelf: campaign hits on /blog/foo whose
\* utm_content names /blog/foo itself (as a slug, and as a URL), by a browser
\* and by curl, and the views of /blog/foo and of a tool by the browser
REQ_SELF_HIT == <<"G","E","T"," ","/","b","l","o","g","/","f","o","o","?","u","t","m","_","c","a","m","p","a","i","g","n","=","c","r","o","s","s","p","r","o","m","o","-","t","o","p","-","o","r","g","a","n","i","c","&","u","t","m","_","c","o","n","t","e","n","t","=","f","o","o"," ","H","T","T","P","/","1",".","1">>
REQ_SELF_HIT_URL == <<"G","E","T"," ","/","b","l","o","g","/","f","o","o","/","?","u","t","m","_","c","a","m","p","a","i","g","n","=","c","r","o","s","s","p","r","o","m","o","-","t","o","p","-","o","r","g","a","n","i","c","&","u","t","m","_","c","o","n","t","e","n","t","=","h","t","t","p","s",":","/","/","d","e","v","t","o","o","l","b","o","x",".","d","e","d","y","n",".","i","o","/","b","l","o","g","/","f","o","o"," ","H","T","T","P","/","1",".","1">>
SelfLines ==
    { Line(IP_HOME, REQ_SELF_HIT, STATUS_200, NO_REFERRER, UA_BROWSER),
      Line(IP_HOME, REQ_SELF_HIT_URL, STATUS_200, NO_REFERRER, UA_BROWSER),
      Line(IP_HOME, REQ_SELF_HIT, STATUS_200, NO_REFERRER, UA_CURL),
      Line(IP_HOME, REQ_BLOG_FOO, STATUS_200, NO_REFERRER, UA_BROWSER),
      Line(IP_HOME, REQ_TOOLS, STATUS_200, NO_REFERRER, UA_BROWSER) }

\* The utm_content values of the specification SpecSources, as the query
\* carries them: same-site URLs (one with a doubled slash, a trailing slash
\* and a query of its own), URLs of another host, of another port and with an
\* upper-case scheme, paths, section keywords, slugs, and values that are none
SRC_URL == <<"h","t","t","p","s",":","/","/","d","e","v","t","o","o","l","b","o","x",".","d","e","d","y","n",".","i","o","/","b","l","o","g","/","f","o","o">>
SRC_URL_WWW_QUERY == <<"h","t","t","p",":","/","/","W","W","W",".","d","e","v","t","o","o","l","b","o","x",".","d","e","d","y","n",".","i","o","/","/","b","l","o","g","/","/","f","o","o","/","?","r","e","f","=","1">>
SRC_URL_FOREIGN == <<"h","t","t","p","s",":","/","/","e","v","i","l",".","e","x","a","m","p","l","e","/","b","l","o","g","/","f","o","o">>
SRC_URL_PORT == <<"h","t","t","p","s",":","/","/","d","e","v","t","o","o","l","b","o","x",".","d","e","d","y","n",".","i","o",":","8","4","4","3","/","b","l","o","g","/","f","o","o">>
SRC_URL_UPPER_SCHEME == <<"H","T","T","P","S",":","/","/","d","e","v","t","o","o","l","b","o","x",".","d","e","d","y","n",".","i","o","/","b","l","o","g","/","f","o","o">>
SRC_PATH == <<"/","b","l","o","g","/","f","o","o">>
SRC_PATH_SLASHES == <<"/","b","l","o","g","/","/","f","o","o","/">>
SRC_PATH_BLANKS_AROUND == <<"+","/","b","l","o","g","/","f","o","o","/","%","2","0">>
SRC_PATH_BLANK_INSIDE == <<"/","b","l","o","g","/","%","2","0","f","o","o">>
SRC_PATH_QUERY == <<"/","b","l","o","g","/","f","o","o","?","r","e","f","=","1">>
SRC_KEYWORD == <<"b","l","o","g">>
SRC_KEYWORD_UPPER == <<"B","l","o","g">>
SRC_KEYWORD_HOME == <<"h","o","m","e","p","a","g","e">>
SRC_SLUG == <<"f","o","o">>
SRC_SLUG_UPPER == <<"F","o","o">>
SRC_RELATIVE == <<"b","l","o","g","/","f","o","o">>
SRC_UNDERSCORE == <<"f","o","o","_","b","a","r">>
SRC_HYPHEN_FIRST == <<"-","f","o","o">>
SRC_NONE_THEN_SLUG == <<"f","o","o","_","b","a","r","&","u","t","m","_","c","o","n","t","e","n","t","=","f","o","o">>
SRC_EMPTY == <<>>
Sources ==
    { SRC_URL, SRC_URL_WWW_QUERY, SRC_URL_FOREIGN, SRC_URL_PORT, SRC_URL_UPPER_SCHEME,
      SRC_PATH, SRC_PATH_SLASHES, SRC_PATH_BLANKS_AROUND, SRC_PATH_BLANK_INSIDE, SRC_PATH_QUERY,
      SRC_KEYWORD, SRC_KEYWORD_UPPER, SRC_KEYWORD_HOME, SRC_SLUG, SRC_SLUG_UPPER,
      SRC_RELATIVE, SRC_UNDERSCORE, SRC_HYPHEN_FIRST, SRC_NONE_THEN_SLUG, SRC_EMPTY }

\* A campaign-tagged request for /datekit whose utm_content is source
HitWith(source) == <<"G","E","T"," ","/","d","a","t","e","k","i","t","?","u","t","m","_","c","a","m","p","a","i","g","n","=","c","r","o","s","s","p","r","o","m","o","-","t","o","p","-","o","r","g","a","n","i","c","&","u","t","m","_","c","o","n","t","e","n","t","=">> \o source \o <<" ","H","T","T","P","/","1",".","1">>
REQ_BLOG == <<"G","E","T"," ","/","b","l","o","g"," ","H","T","T","P","/","1",".","1">>
REQ_HOME == <<"G","E","T"," ","/"," ","H","T","T","P","/","1",".","1">>
REQ_BLOG_FOO_SLASHES == <<"G","E","T"," ","/","/","b","l","o","g","/","/","f","o","o","/","?","p","a","g","e","=","2"," ","H","T","T","P","/","1",".","1">>

\* The lines of the specification SpecSources: the views of /blog/foo (one
\* spelled with doubled slashes and a query), of /blog and of the homepage,
\* and a hit with each utm_content value, without referrer and arriving from
\* /blog/foo
SourceLines ==
    { Line(IP_HOME, REQ_BLOG_FOO, STATUS_200, NO_REFERRER, UA_BROWSER),
      Line(IP_HOME, REQ_BLOG_FOO_SLASHES, STATUS_200, NO_REFERRER, UA_BROWSER),
      Line(IP_HOME, REQ_BLOG, STATUS_200, NO_REFERRER, UA_BROWSER),
      Line(IP_HOME, REQ_HOME, STATUS_200, NO_REFERRER, UA_BROWSER) }
        \cup {Line(IP_HOME, HitWith(source), STATUS_200, NO_REFERRER, UA_BROWSER) : source \in Sources}
        \cup {Line(IP_HOME, HitWith(source), STATUS_200, REF_BLOG_FOO, UA_BROWSER) : source \in Sources}

\* The timestamps of the lines of the log files, as nginx writes them; now is
\* 2026-11-03T12:00:00Z. In the current window, the later one written in
\* another zone; in the previous window; before both; no date; and a second
\* before the end of year 9999, an hour west of UTC
TS_NEW == <<"0","3","/","N","o","v","/","2","0","2","6",":","1","1",":","5","0",":","0","0"," ","+","0","0","0","0">>
TS_NEWER_EAST == <<"0","3","/","N","o","v","/","2","0","2","6",":","1","3",":","5","5",":","0","0"," ","+","0","2","0","0">>
TS_PREVIOUS == <<"0","3","/","N","o","v","/","2","0","2","6",":","1","0",":","3","0",":","0","0"," ","+","0","0","0","0">>
TS_OLD == <<"0","3","/","N","o","v","/","2","0","2","6",":","0","9",":","0","0",":","0","0"," ","+","0","0","0","0">>
TS_NO_DATE == <<"3","1","/","F","e","b","/","2","0","2","6",":","1","1",":","0","0",":","0","0"," ","+","0","0","0","0">>
TS_PAST_MAX == <<"3","1","/","D","e","c","/","9","9","9","9",":","2","3",":","5","9",":","5","9"," ","-","0","1","0","0">>
STATUS_SHORT == <<"2","0">>

\* One line of a log file, as text
RawLine(ip, ts, req, status, ref, ua) ==
    ip \o <<" ","-"," ","-"," ","[">> \o ts \o <<"]", " ", "\"">> \o req \o <<"\"", " ">> \o status \o <<" ","5","1","2"," ">> \o <<"\"">> \o ref \o <<"\"", " ", "\"">> \o ua \o <<"\"", "\n">>

\* The lines of the log files of the specification SpecMain: a page view, a
\* campaign hit naming it, a view in the previous window, a view before it, a
\* line off the grammar (a status of two digits), and two lines whose
\* timestamps are no instant of datetime
RAW_VIEW == RawLine(IP_HOME, TS_NEW, REQ_BLOG_FOO, STATUS_200, NO_REFERRER, UA_BROWSER)
RAW_HIT == RawLine(IP_HOME, TS_NEWER_EAST, REQ_HIT_FOO, STATUS_200, NO_REFERRER, UA_BROWSER)
RAW_PREVIOUS_VIEW == RawLine(IP_HOME, TS_PREVIOUS, REQ_BLOG_FOO, STATUS_200, NO_REFERRER, UA_BROWSER)
RAW_OLD_VIEW == RawLine(IP_HOME, TS_OLD, REQ_BLOG_FOO, STATUS_200, NO_REFERRER, UA_BROWSER)
RAW_SHORT_STATUS == RawLine(IP_HOME, TS_NEW, REQ_TOOLS, STATUS_SHORT, NO_REFERRER, UA_BROWSER)
RAW_NO_DATE == RawLine(IP_HOME, TS_NO_DATE, REQ_TOOLS, STATUS_200, NO_REFERRER, UA_BROWSER)
RAW_PAST_MAX == RawLine(IP_HOME, TS_PAST_MAX, REQ_TOOLS, STATUS_200, NO_REFERRER, UA_BROWSER)
RawLines == {RAW_VIEW, RAW_HIT, RAW_PREVIOUS_VIEW, RAW_OLD_VIEW, RAW_SHORT_STATUS, RAW_NO_DATE, RAW_PAST_MAX}

\* The timestamps of the specification SpecWindows: one hour, two hours and
\* four hours before now, and a second before each (the first written in
\* another zone)
TS_HOUR_AGO == <<"0","3","/","N","o","v","/","2","0","2","6",":","1","2",":","0","0",":","0","0"," ","+","0","1","0","0">>
TS_OVER_HOUR_AGO == <<"0","3","/","N","o","v","/","2","0","2","6",":","1","0",":","5","9",":","5","9"," ","+","0","0","0","0">>
TS_TWO_HOURS_AGO == <<"0","3","/","N","o","v","/","2","0","2","6",":","1","0",":","0","0",":","0","0"," ","+","0","0","0","0">>
TS_OVER_TWO_HOURS_AGO == <<"0","3","/","N","o","v","/","2","0","2","6",":","0","9",":","5","9",":","5","9"," ","+","0","0","0","0">>
TS_FOUR_HOURS_AGO == <<"0","3","/","N","o","v","/","2","0","2","6",":","0","8",":","0","0",":","0","0"," ","+","0","0","0","0">>
TS_OVER_FOUR_HOURS_AGO == <<"0","3","/","N","o","v","/","2","0","2","6",":","0","7",":","5","9",":","5","9"," ","+","0","0","0","0">>
\* The lines of the log files of SpecWindows: at each hour a campaign hit
\* that names /blog/foo (a view of it four hours ago), and a second before
\* each a view of /blog/foo
RAW_HIT_HOUR_AGO == RawLine(IP_HOME, TS_HOUR_AGO, REQ_HIT_FOO, STATUS_200, NO_REFERRER, UA_BROWSER)
RAW_VIEW_OVER_HOUR_AGO == RawLine(IP_HOME, TS_OVER_HOUR_AGO, REQ_BLOG_FOO, STATUS_200, NO_REFERRER, UA_BROWSER)
RAW_HIT_TWO_HOURS_AGO == RawLine(IP_HOME, TS_TWO_HOURS_AGO, REQ_HIT_FOO, STATUS_200, NO_REFERRER, UA_BROWSER)
RAW_VIEW_OVER_TWO_HOURS_AGO == RawLine(IP_HOME, TS_OVER_TWO_HOURS_AGO, REQ_BLOG_FOO, STATUS_200, NO_REFERRER, UA_BROWSER)
RAW_VIEW_FOUR_HOURS_AGO == RawLine(IP_HOME, TS_FOUR_HOURS_AGO, REQ_BLOG_FOO, STATUS_200, NO_REFERRER, UA_BROWSER)
RAW_VIEW_OVER_FOUR_HOURS_AGO == RawLine(IP_HOME, TS_OVER_FOUR_HOURS_AGO, REQ_BLOG_FOO, STATUS_200, NO_REFERRER, UA_BROWSER)
WindowRawLines == {RAW_HIT_HOUR_AGO, RAW_VIEW_OVER_HOUR_AGO, RAW_HIT_TWO_HOURS_AGO, RAW_VIEW_OVER_TWO_HOURS_AGO, RAW_VIEW_FOUR_HOURS_AGO, RAW_VIEW_OVER_FOUR_HOURS_AGO}

\* main's reading of one line of a log file: LOG_PATTERN.match(line), and for
\* a line that matches, strptime(match.group("ts"), ...).astimezone(utc);
\* computed once for the lines of the model
ParseLine(m) == IF m.matched THEN m @@ [time |-> ParseTimestamp(m.ts)] ELSE m
ParsedLines == [raw \in RawLines \cup WindowRawLines |-> ParseLine(Match(LOG_PATTERN, raw, [matched |-> TRUE]))]
\* The groups of a matched line main passes on
LineOfMatch(m) == Line(m.ip, m.req, m.status, m.ref, m.ua)
MainLines == {LineOfMatch(ParsedLines[raw]) : raw \in {r \in DOMAIN ParsedLines : ParsedLines[r].matched}}

\* The timestamps of the lines, in seconds. Times: two lines more than the
\* lookback apart; RecencyTimes: 10 minutes, 30 minutes and 30 minutes and a
\* second after the first
Times == {0, 1801}
RecencyTimes == {0, 600, 1800, 1801}
SourceTimes == {0, 600}

\* The number of events of a run of Spec and of SpecRecency, and the largest
\* metric value of a compared summary
MaxEvents == 3
MaxRecencyEvents == 4
MaxSourceEvents == 2
MaxClientEvents == 3
MaxSelfEvents == 3
MaxReferrerEvents == 2
MaxCount == 4

\* ------------------------------------------------------------------ state

VARIABLES
    current_window,   \* main's WindowStats
    log,              \* the record calls made so far, in order: [line, ts, moved, window]
    comparison,       \* [current, previous, deltas]: the summaries given to build_window_comparison and its result
    report,           \* the summary calls made on current_window: [calls, at, summary, previous]
    call,             \* one call of a pure function: [arg, done, result]
    run               \* one run of main: its arguments, its position, the events it collected, its second window

vars == <<current_window, log, comparison, report, call, run>>

NoComparison == [current |-> <<>>, previous |-> <<>>, deltas |-> <<>>]
NoReport == [calls |-> 0, at |-> 0, summary |-> <<>>, previous |-> <<>>, previous_at |-> 0]
NoCall == [arg |-> <<>>, done |-> FALSE, result |-> <<>>]
NoRun == [pc |-> "none"]

Init ==
    /\ current_window = NewWindowStats
    /\ log = <<>>
    /\ comparison = NoComparison
    /\ report = NoReport
    /\ call = NoCall
    /\ run = NoRun

\* The timestamp of the last record call: main sorts the events by timestamp
\* before it records them
LastTs == IF log = <<>> THEN 0 ELSE log[Len(log)].ts

\* main's reading of one matched line: the referrer and the user agent
\* stripped, the request parsed into path and query
LineEvent(line, pq) == RecordArgs(line.ip, line.status, Strip(line.ref), pq[1], pq[2], Strip(line.ua))
EventOfLine(line) == LineEvent(line, parse_request_path_query(line.req))

\* The events of the lines of the model, computed once
Events == [line \in Lines \cup RecencyLines \cup SelfLines \cup ClientLines \cup ReferrerLines \cup SourceLines \cup MainLines |-> EventOfLine(line)]

\* The fields of the window that differ between two of its states
Moved(before, after) == {f \in DOMAIN before : after[f] # before[f]}

\* main's handling of one event of the sorted list: the record call on the
\* window; log remembers the line, its time and the fields the call moved
RecordEvent(line, ts) ==
    /\ ts >= LastTs
    /\ current_window' = record(current_window, Events[line], ts)
    /\ log' = Append(log, [line |-> line, ts |-> ts, moved |-> Moved(current_window, current_window'), window |-> "current"])
    /\ UNCHANGED <<comparison, report, call, run>>

Next == \E line \in Lines, ts \in Times : Len(log) < MaxEvents /\ RecordEvent(line, ts)

Spec == Init /\ [][Next]_vars

NextRecency == \E line \in RecencyLines, ts \in RecencyTimes : Len(log) < MaxRecencyEvents /\ RecordEvent(line, ts)

SpecRecency == Init /\ [][NextRecency]_vars

NextReferrers == \E line \in ReferrerLines, ts \in Times : Len(log) < MaxReferrerEvents /\ RecordEvent(line, ts)

SpecReferrers == Init /\ [][NextReferrers]_vars

NextClients == \E line \in ClientLines, ts \in RecencyTimes : Len(log) < MaxClientEvents /\ RecordEvent(line, ts)

SpecClients == Init /\ [][NextClients]_vars

NextSelf == \E line \in SelfLines, ts \in RecencyTimes : Len(log) < MaxSelfEvents /\ RecordEvent(line, ts)

SpecSelf == Init /\ [][NextSelf]_vars

NextSources == \E line \in SourceLines, ts \in SourceTimes : Len(log) < MaxSourceEvents /\ RecordEvent(line, ts)

SpecSources == Init /\ [][NextSources]_vars

\* The window comparison on summaries drawn from small values
Summaries == [COMPARED_METRICS \ {"content_requests"} -> 0..MaxCount]

InitCompare ==
    /\ current_window = NewWindowStats
    /\ log = <<>>
    /\ comparison \in {[current |-> c, previous |-> p, deltas |-> <<>>] : c \in Summaries, p \in Summaries}
    /\ report = NoReport
    /\ call = NoCall
    /\ run = NoRun

BuildComparison ==
    /\ comparison.deltas = <<>>
    /\ comparison' = [comparison EXCEPT !.deltas = build_window_comparison(comparison.current, comparison.previous)]
    /\ UNCHANGED <<current_window, log, report, call, run>>

NextCompare == BuildComparison

SpecCompare == InitCompare /\ [][NextCompare]_vars

\* ------------------------------------------------- normalize_path, called

\* The paths normalize_path is called on: the strings of at most MaxPathLen
\* characters over a slash, a letter, a colon and a space
MaxPathLen == 5
PathChars == {"/", "a", ":", " "}
PathInputs == UNION {[1..n -> PathChars] : n \in 0..MaxPathLen}

InitNormalize ==
    /\ current_window = NewWindowStats
    /\ log = <<>>
    /\ comparison = NoComparison
    /\ report = NoReport
    /\ call \in {[arg |-> p, done |-> FALSE, result |-> <<>>] : p \in PathInputs}
    /\ run = NoRun

\* One call normalize_path(arg)
NormalizePath ==
    /\ ~call.done
    /\ call' = [call EXCEPT !.done = TRUE, !.result = normalize_path(call.arg)]
    /\ UNCHANGED <<current_window, log, comparison, report, run>>

SpecNormalize == InitNormalize /\ [][NormalizePath]_vars

\* ------------------------------------------------- WindowStats.summary, called

\* The number of record calls and of summary calls of a run of SpecSummary
MaxSummaryEvents == 2
MaxSummaryCalls == 3

\* AfterSummary, were summary to reset the counters it has reported
reset_by_summary(self) == NewWindowStats

\* The window after a call of summary: the method reads the attributes of
\* self (sum, len, Counter.get, Counter.most_common, sorted) and assigns none
AfterSummary(self) == self

\* One call current_window.summary(generated_at, window_hours); report keeps
\* its result, the result of the call before it, and the number of record
\* calls made before each of the two
Summarize ==
    /\ report.calls < MaxSummaryCalls
    /\ report' = [calls |-> report.calls + 1, at |-> Len(log), summary |-> summary(current_window),
                  previous |-> report.summary, previous_at |-> report.at]
    /\ current_window' = AfterSummary(current_window)
    /\ UNCHANGED <<log, comparison, call, run>>

NextSummary ==
    \/ \E line \in RecencyLines, ts \in RecencyTimes : Len(log) < MaxSummaryEvents /\ RecordEvent(line, ts)
    \/ Summarize

SpecSummary == Init /\ [][NextSummary]_vars


\* ------------------------------------------------------------------- main

\* now, in seconds since 1970-01-01T00:00:00Z: 2026-11-03T12:00:00Z
NOW == 1793707200
\* The arguments of the runs of the model: --hours and --compare-previous
HoursArgs == {0, 1}
\* window_hours, were --hours taken as given
hours_as_given(args) == args.hours
\* `window_hours = max(1, args.hours)`, current_start and previous_start
window_hours(args) == IF args.hours > 1 THEN args.hours ELSE 1
current_start(args) == NOW - 3600 * window_hours(args)
previous_start(args) == current_start(args) - 3600 * window_hours(args)

\* The number of lines of a log file of the model, and the log files the
\* process may find: any lines in a file it reads, a view in a file it does not
MaxFileLines == 2
FileContents == UNION {[1..n -> RawLines] : n \in 0..MaxFileLines}
Files ==
    {[state |-> "missing", lines |-> <<>>]}
        \cup {[state |-> s, lines |-> <<RAW_VIEW>>] : s \in {"unsearchable", "denied, sudo fails", "unreadable"}}
        \cup {[state |-> s, lines |-> c] : s \in {"readable", "denied, sudo reads"}, c \in FileContents}

InitMain ==
    /\ current_window = NewWindowStats
    /\ log = <<>>
    /\ comparison = NoComparison
    /\ report = NoReport
    /\ call = NoCall
    /\ run \in {[pc |-> "read", args |-> [hours |-> h, compare_previous |-> c], disk |-> <<>>, events |-> <<>>, next |-> 1,
                 stderr |-> <<>>, sudo |-> <<>>, previous_window |-> IF c THEN NewWindowStats ELSE <<>>, raised |-> ""]
                    : h \in HoursArgs, c \in BOOLEAN}

\* The body of `for line in lines:` on the lines left, events being the list
\* so far: [events, raised], the list after the loop, or at the line whose
\* timestamp raised an exception that is no ValueError
RECURSIVE ReadLines(_, _, _)
ReadLine(m, rest, args, events) ==
    IF ~m.matched THEN ReadLines(rest, args, events)
    ELSE IF m.time.error = "ValueError" THEN ReadLines(rest, args, events)
    ELSE IF m.time.error # "" THEN [events |-> events, raised |-> m.time.error]
    ELSE IF m.time.ts < (IF args.compare_previous THEN previous_start(args) ELSE current_start(args)) THEN ReadLines(rest, args, events)
    ELSE ReadLines(rest, args, Append(events, [ts |-> m.time.ts, line |-> LineOfMatch(m)]))
ReadLines(lines, args, events) ==
    IF lines = <<>> THEN [events |-> events, raised |-> ""]
    ELSE ReadLine(ParsedLines[Head(lines)], Tail(lines), args, events)

\* One pass of `for logfile in LOG_FILES:` on the file the process finds
AfterRead(file, read, collected) ==
    [run EXCEPT !.disk = Append(@, file),
                !.sudo = IF read.sudo > 0 THEN Append(@, Len(run.disk) + 1) ELSE @,
                !.stderr = IF read.raised # "" THEN Append(@, Len(run.disk) + 1) ELSE @,
                !.events = collected.events,
                !.raised = collected.raised,
                !.pc = IF collected.raised # "" THEN "aborted" ELSE IF Len(run.disk) + 1 = Len(LOG_FILES) THEN "sort" ELSE "read"]
ReadFile(file, read) == AfterRead(file, read, IF read.raised # "" THEN [events |-> run.events, raised |-> ""] ELSE ReadLines(read.lines, run.args, run.events))
ReadLogFile(file) ==
    /\ run.pc = "read"
    /\ run' = ReadFile(file, read_log_lines(file))
    /\ UNCHANGED <<current_window, log, comparison, report, call>>

\* events.sort(key=lambda item: item[0]), were the list left as it is
unsorted(events) == events

\* events.sort(key=lambda item: item[0]): a stable sort by timestamp
RECURSIVE SortByTs(_)
InsertByTs(sorted, event) ==
    LET before == SelectSeq(sorted, LAMBDA e : e.ts <= event.ts)
    IN before \o <<event>> \o SubSeq(sorted, Len(before) + 1, Len(sorted))
SortByTs(events) == IF events = <<>> THEN <<>> ELSE InsertByTs(SortByTs(Upto(events, Len(events) - 1)), events[Len(events)])

SortEvents ==
    /\ run.pc = "sort"
    /\ run' = [run EXCEPT !.events = SortByTs(@), !.pc = "record"]
    /\ UNCHANGED <<current_window, log, comparison, report, call>>

\* One pass of `for ts, ip, ... in events:`: the record call on the window of
\* the event
\* TargetWindow, were every event recorded in the current window
one_window(args, ts) == "current"
TargetWindow(args, ts) == IF args.compare_previous /\ ts < current_start(args) THEN "previous" ELSE "current"
RecordInWindow(event, e, target) ==
    /\ current_window' = IF target = "current" THEN record(current_window, e, event.ts) ELSE current_window
    /\ run' = [run EXCEPT !.next = @ + 1, !.previous_window = IF target = "previous" THEN record(@, e, event.ts) ELSE @]
    /\ log' = Append(log, [line |-> event.line, ts |-> event.ts, window |-> target,
                           moved |-> IF target = "current" THEN Moved(current_window, current_window') ELSE Moved(run.previous_window, run'.previous_window)])
MainRecord ==
    /\ run.pc = "record" /\ run.next <= Len(run.events)
    /\ RecordInWindow(run.events[run.next], Events[run.events[run.next].line], TargetWindow(run.args, run.events[run.next].ts))
    /\ UNCHANGED <<comparison, report, call>>

\* The summaries and the comparison main prints after the last event
Report ==
    /\ run.pc = "record" /\ run.next > Len(run.events)
    /\ run' = [run EXCEPT !.pc = "done"]
    /\ report' = [calls |-> report.calls + 1, at |-> Len(log), summary |-> summary(current_window), previous |-> report.summary, previous_at |-> report.at]
    /\ comparison' = IF run.args.compare_previous
                     THEN [current |-> summary(current_window), previous |-> summary(run.previous_window),
                           deltas |-> build_window_comparison(summary(current_window), summary(run.previous_window))]
                     ELSE comparison
    /\ UNCHANGED <<current_window, log, call>>

NextMain ==
    \/ \E file \in Files : ReadLogFile(file)
    \/ SortEvents
    \/ MainRecord
    \/ Report

SpecMain == InitMain /\ [][NextMain]_vars

\* ------------------------------------------------------- main, two windows

\* The runs of the specification SpecWindows: --hours 0 (one hour) and
\* --hours 2, with and without --compare-previous, on two readable log files
\* of up to MaxFileLines lines at and around the starts of the windows
WindowHoursArgs == {0, 2}
WindowFiles == {[state |-> "readable", lines |-> c] : c \in UNION {[1..n -> WindowRawLines] : n \in 0..MaxFileLines}}

InitWindows ==
    /\ current_window = NewWindowStats
    /\ log = <<>>
    /\ comparison = NoComparison
    /\ report = NoReport
    /\ call = NoCall
    /\ run \in {[pc |-> "read", args |-> [hours |-> h, compare_previous |-> c], disk |-> <<>>, events |-> <<>>, next |-> 1,
                 stderr |-> <<>>, sudo |-> <<>>, previous_window |-> IF c THEN NewWindowStats ELSE <<>>, raised |-> ""]
                    : h \in WindowHoursArgs, c \in BOOLEAN}

NextWindows ==
    \/ \E file \in WindowFiles : ReadLogFile(file)
    \/ SortEvents
    \/ MainRecord
    \/ Report

SpecWindows == InitWindows /\ [][NextWindows]_vars

\* ------------------------------------------------------------- properties

\* The record calls made so far, and the event of the i-th
Calls == 1..Len(log)
Event(i) == Events[log[i].line]
\* The event of the last call of a log
LastEvent(l) == Events[l[Len(l)].line]

\* The counters of the four attribution outcomes: direct-referrer-attributed,
\* parameter-attributed-verified, parameter-attributed-unverified, unattributed
DIRECT == "crosspromo_hits_with_internal_referrer"
VERIFIED == "crosspromo_inferred_verified_hits"
UNVERIFIED == "crosspromo_inferred_unverified_hits"
UNATTRIBUTED == "crosspromo_hits_unattributed"
OutcomeCounters == {DIRECT, VERIFIED, UNVERIFIED, UNATTRIBUTED}
\* The outcomes the i-th call assigned, and whether it counted a campaign hit
Outcomes(i) == log[i].moved \cap OutcomeCounters
CountedAsCampaignHit(i) == "crosspromo_campaign_hits" \in log[i].moved

\* Every crosspromo_* field of the window
CrosspromoFields == {"crosspromo_campaign_hits", "crosspromo_hits_with_internal_referrer", "crosspromo_hits_with_inferred_source", "crosspromo_hits_unattributed", "crosspromo_non_bot_hits_with_internal_referrer", "crosspromo_non_bot_hits_with_inferred_source", "crosspromo_non_bot_hits_unattributed", "crosspromo_inferred_verified_hits", "crosspromo_inferred_unverified_hits", "crosspromo_non_bot_inferred_verified_hits", "crosspromo_non_bot_inferred_unverified_hits", "crosspromo_hits_with_param_source", "crosspromo_non_bot_hits_with_param_source", "crosspromo_hits_with_param_source_without_referrer", "crosspromo_non_bot_hits_with_param_source_without_referrer", "crosspromo_source_mismatch_hits", "crosspromo_known_bot_hits", "crosspromo_hits_with_any_referrer", "crosspromo_hits_without_referrer", "crosspromo_non_bot_hits_with_any_referrer", "crosspromo_non_bot_hits_without_referrer", "crosspromo_hits_without_referrer_known_bot", "crosspromo_suspected_automation_hits", "crosspromo_suspected_automation_unique_ips", "crosspromo_campaign_pages", "crosspromo_campaign_sources", "crosspromo_campaign_source_pages", "crosspromo_campaign_source_sections", "crosspromo_campaign_target_sections", "crosspromo_campaign_source_target_sections", "crosspromo_campaign_page_path_pairs", "crosspromo_non_bot_campaign_sources", "crosspromo_non_bot_campaign_source_pages", "crosspromo_non_bot_campaign_source_sections", "crosspromo_non_bot_campaign_target_sections", "crosspromo_non_bot_campaign_source_target_sections", "crosspromo_non_bot_campaign_page_path_pairs", "crosspromo_campaign_param_source_pages", "crosspromo_campaign_param_source_sections", "crosspromo_non_bot_campaign_param_source_pages", "crosspromo_non_bot_campaign_param_source_sections", "crosspromo_known_bot_user_agents", "crosspromo_suspected_automation_user_agents"}
\* The fields only the parameter-attributed branch of a campaign hit moves
InferredCrosspropertyFields == {"internal_crossproperty_inferred_referrals", "internal_crossproperty_inferred_non_bot_referrals", "internal_crossproperty_inferred_verified_referrals", "internal_crossproperty_inferred_non_bot_verified_referrals", "internal_crossproperty_inferred_unverified_referrals", "internal_crossproperty_inferred_non_bot_unverified_referrals", "internal_crossproperty_inferred_target_sections", "internal_crossproperty_inferred_non_bot_target_sections", "internal_crossproperty_inferred_verified_target_sections", "internal_crossproperty_inferred_non_bot_verified_target_sections", "internal_crossproperty_inferred_unverified_target_sections", "internal_crossproperty_inferred_non_bot_unverified_target_sections"}

\* The redirect hops of the site: /go/<target> for the configured targets
REDIRECT_HOP_PATHS == {<<"/","g","o","/">> \o target : target \in CROSSPROMO_REDIRECT_TARGETS}
CarriesCampaignMarker(e) == Contains(e.query, CAMPAIGN_MARKER)
\* A campaign-tagged request: the marker in its query, its path no redirect hop
CampaignTagged(e) == CarriesCampaignMarker(e) /\ e.path \notin REDIRECT_HOP_PATHS
\* The referrer is absent, and the referrer is a URL of the site: a URL whose
\* network location is the host of the site, with or without www., whatever
\* the case of its letters
NoReferrer(e) == e.referrer \in {<<>>, <<"-">>}
SITE_HOSTS == {SITE_HOST, <<"w","w","w",".">> \o SITE_HOST}
SAME_SITE_REFERRERS == {r \in {Events[line].referrer : line \in DOMAIN Events} : Lower(urlparse(r).netloc) \in SITE_HOSTS}
SameSiteReferrer(e) == e.referrer \in SAME_SITE_REFERRERS
\* A non-suspicious, non-asset page view: what the client's history remembers
RememberedView(i) == Event(i).page /\ ~Event(i).suspicious_path
SameClient(i, j) == Event(i).client_key = Event(j).client_key
\* The paths the utm_content values of call j resolve to
ResolvedPaths(j) == Event(j).normalized_inferred_paths

C3_HumanAndBotHitsSumToTotal ==
    LET s == summary(current_window)
        counted == {i \in Calls : CountedAsCampaignHit(i)}
        bots == {i \in counted : Event(i).known_bot_ua}
        suspected == {i \in counted : Event(i).suspected_crosspromo_automation}
    IN /\ s.crosspromo_non_bot_hits + s.crosspromo_known_bot_hits = s.crosspromo_campaign_hits
       /\ s.crosspromo_non_bot_hits = Cardinality(counted \ (bots \cup suspected))
       /\ s.crosspromo_known_bot_hits = Cardinality(bots \cup suspected)
       /\ s.crosspromo_suspected_automation_hits = Cardinality(suspected)

\* One human hit, one hit of a bot user agent and one of suspected automation
C3_Witness ==
    LET s == summary(current_window)
    IN s.crosspromo_campaign_hits = 3 /\ s.crosspromo_non_bot_hits = 1 /\ s.crosspromo_known_bot_hits = 2 /\ s.crosspromo_suspected_automation_hits = 1

\* C3 as stated: human + known-bot + suspected-automation campaign hits sum to
\* the campaign hits.
C3_AsStated ==
    LET s == summary(current_window)
    IN s.crosspromo_non_bot_hits + s.crosspromo_known_bot_hits + s.crosspromo_suspected_automation_hits = s.crosspromo_campaign_hits

\* C4: a request for a redirect hop /go/<target> whose query carries the
\* campaign marker moves no crosspromo field of the window (and none of the
\* fields of the parameter-attributed branch).
C4_RedirectHopIsNoCampaignHit ==
    \A j \in Calls : Event(j).path \in REDIRECT_HOP_PATHS /\ CarriesCampaignMarker(Event(j)) => log[j].moved \cap (CrosspromoFields \cup InferredCrosspropertyFields) = {}

\* A marked redirect hop recorded after a campaign hit was counted
C4_Witness ==
    \E j \in Calls : /\ Event(j).path \in REDIRECT_HOP_PATHS /\ CarriesCampaignMarker(Event(j))
                     /\ "total_requests" \in log[j].moved
                     /\ \E i \in 1..(j - 1) : CountedAsCampaignHit(i)

\* The remembered views of the client of call i recorded after it and before call j
LaterViews(i, j) == {k \in (i + 1)..(j - 1) : RememberedView(k) /\ SameClient(k, i)}
\* Call i is a remembered view, by the client of call j, of a path the
\* utm_content of j resolves to, less than the lookback before j
ViewedWithinHorizon(i, j) ==
    /\ i < j /\ RememberedView(i) /\ SameClient(i, j) /\ Event(i).path \in ResolvedPaths(j)
    /\ log[i].ts <= log[j].ts /\ log[j].ts < log[i].ts + INFERRED_SOURCE_LOOKBACK

EveryViewTooOld(j, p) == \A i \in 1..(j - 1) : SameClient(i, j) /\ Event(i).page /\ Event(i).path = p => log[i].ts + INFERRED_SOURCE_LOOKBACK < log[j].ts

\* C6 (as amended: on a non-asset path, for every path the utm_content
\* resolves to): with the events recorded in timestamp order, a campaign-tagged
\* hit without same-site referrer, whose utm_content resolves to paths each of
\* which the same client viewed only more than 30 minutes before, is
\* classified parameter-attributed-unverified.
C6_UnverifiedPastHorizon ==
    \A j \in Calls :
        /\ CampaignTagged(Event(j)) /\ ~SameSiteReferrer(Event(j))
        /\ ~Event(j).asset
        /\ ResolvedPaths(j) # {}
        /\ \A p \in ResolvedPaths(j) : EveryViewTooOld(j, p)
        => Outcomes(j) = {UNVERIFIED}

\* A view, and more than 30 minutes later the hit of the same client, unverified
C6_Witness ==
    \E j \in Calls :
        /\ CampaignTagged(Event(j)) /\ ~SameSiteReferrer(Event(j)) /\ ~Event(j).asset
        /\ \A p \in ResolvedPaths(j) : EveryViewTooOld(j, p)
        /\ \E i \in 1..(j - 1) : RememberedView(i) /\ SameClient(i, j) /\ Event(i).path \in ResolvedPaths(j)
        /\ Outcomes(j) = {UNVERIFIED}

\* C6 as stated: a campaign-tagged hit without same-site referrer whose
\* utm_content resolves to a path p that the same client viewed only more than
\* 30 minutes before is classified parameter-attributed-unverified.
C6_AsStated ==
    \A j \in Calls : \A p \in ResolvedPaths(j) :
        CampaignTagged(Event(j)) /\ ~SameSiteReferrer(Event(j)) /\ EveryViewTooOld(j, p) => Outcomes(j) = {UNVERIFIED}

\* The comparison has been built
Compared == comparison.deltas # <<>>
CurrentValue(metric) == GetInt(comparison.current, metric)
PreviousValue(metric) == GetInt(comparison.previous, metric)
Abs(n) == IF n < 0 THEN -n ELSE n

\* C7 (as amended: null whenever the prior value is 0): for every compared
\* metric the percentage change is null exactly when the prior-window value is
\* 0, whatever the current value, and no sentinel stands in for it.
C7_PctNullExactlyWhenPriorZero ==
    Compared => \A metric \in COMPARED_METRICS : comparison.deltas[metric].pct.null <=> PreviousValue(metric) = 0

\* A metric that grew from 0 with a null percentage, and one with a prior
\* value and a percentage
C7_Witness ==
    /\ Compared
    /\ \E metric \in COMPARED_METRICS : PreviousValue(metric) = 0 /\ CurrentValue(metric) > 0 /\ comparison.deltas[metric].pct.null
    /\ \E metric \in COMPARED_METRICS : PreviousValue(metric) > 0 /\ ~comparison.deltas[metric].pct.null

\* C7 as stated: the percentage change is null exactly when the prior value
\* and the current value are both 0, and it is the sentinel 100 when the prior
\* value is 0 and the current value is greater.
C7_AsStated ==
    Compared => \A metric \in COMPARED_METRICS :
        /\ comparison.deltas[metric].pct.null <=> (PreviousValue(metric) = 0 /\ CurrentValue(metric) = 0)
        /\ PreviousValue(metric) = 0 /\ CurrentValue(metric) > 0 => comparison.deltas[metric].pct = Pct(10000)

\* C8: for every compared metric the delta is current - previous; the
\* percentage change is null when the prior value is 0 and otherwise
\* (current - previous) / previous * 100 to two decimals (within half a
\* hundredth of the quotient).
C8_DeltaAndPct ==
    Compared => \A metric \in COMPARED_METRICS :
        LET current == CurrentValue(metric)
            previous == PreviousValue(metric)
            d == comparison.deltas[metric]
        IN /\ d.delta = current - previous
           /\ previous = 0 => d.pct.null
           /\ previous # 0 => ~d.pct.null /\ 2 * Abs(d.pct.x100 * previous - 10000 * (current - previous)) <= previous

\* total_requests from 3 to 4 is +1 and 33.33%, from 3 to 1 is -2 and
\* -66.67%; a metric absent from both summaries is 0 and null
C8_Witness ==
    /\ Compared
    /\ comparison.previous.total_requests = 3 /\ comparison.current.total_requests = 4
    /\ comparison.deltas["total_requests"] = [delta |-> 1, pct |-> Pct(3333)]
    /\ comparison.previous.crosspromo_campaign_hits = 3 /\ comparison.current.crosspromo_campaign_hits = 1
    /\ comparison.deltas["crosspromo_campaign_hits"] = [delta |-> -2, pct |-> Pct(-6667)]
    /\ comparison.deltas["content_requests"] = [delta |-> 0, pct |-> None]

\* The two lines of the scenario of C9
TOOLS_HIT == Line(IP_HOME, REQ_TOOLS, STATUS_200, NO_REFERRER, UA_BROWSER)
WP_LOGIN_PROBE == Line(IP_HOME, REQ_WP_LOGIN, STATUS_404, NO_REFERRER, UA_BROWSER)
IsScenario(l) == Len(l) = 2 /\ {l[1].line, l[2].line} = {TOOLS_HIT, WP_LOGIN_PROBE}
\* The four reported numbers of the scenario
ScenarioReport(s) == s.content_requests = 1 /\ s.suspicious_requests = 1 /\ s.clean_404 = 0 /\ s.suspicious_404 = 1

\* What a record call does to the suspicious and the content side; the
\* suspicious 404 of a probe being counted when counts_404
SuspiciousAccounting(e, s, t, counts_404) ==
    /\ e.suspicious_path =>
        /\ t.suspicious_requests = s.suspicious_requests + 1
        /\ t.suspicious_404 = s.suspicious_404 + (IF counts_404 THEN 1 ELSE 0)
        /\ t.content_requests = s.content_requests
        /\ t.clean_404 = s.clean_404
    /\ ~e.suspicious_path /\ ~e.asset /\ e.status = STATUS_200 =>
        /\ t.content_requests = s.content_requests + 1
        /\ t.suspicious_requests = s.suspicious_requests
        /\ t.not_found_requests = s.not_found_requests /\ t.clean_404 = s.clean_404 /\ t.suspicious_404 = s.suspicious_404

\* C9 (as amended: suspicious_404 counts the 404 probes of non-asset paths): a
\* request for a suspicious path adds 1 to suspicious_requests, and 1 to
\* suspicious_404 when its status is 404 and its path is no asset path, and
\* nothing to content_requests or clean_404; a clean non-asset request with
\* status 200 adds 1 to content_requests and nothing to a 404 count; the log
\* of one /tools/json-formatter 200 hit and one /wp-login.php 404 probe
\* reports content_requests=1, suspicious_requests=1, clean_404=0,
\* suspicious_404=1.
C9_SuspiciousAndContentAccounting ==
    [][Len(log') = Len(log) + 1 =>
        LET e == LastEvent(log')
            s == summary(current_window)
            t == summary(current_window')
        IN /\ SuspiciousAccounting(e, s, t, e.status = STATUS_404 /\ ~e.asset)
           /\ IsScenario(log') => ScenarioReport(t)]_vars

\* The scenario's log and its report
C9_Witness == IsScenario(log) /\ ScenarioReport(summary(current_window))

\* C9 as stated: a request for a suspicious path adds 1 to suspicious_404
\* whenever its status is 404.
C9_AsStated ==
    [][Len(log') = Len(log) + 1 =>
        LET e == LastEvent(log')
            s == summary(current_window)
            t == summary(current_window')
        IN /\ SuspiciousAccounting(e, s, t, e.status = STATUS_404)
           /\ IsScenario(log') => ScenarioReport(t)]_vars

\* The referrer is a Google URL
GoogleReferrer(e) == Contains(Lower(e.referrer), <<"g","o","o","g","l","e",".">>)

\* C10: a request with a search-engine referrer for a non-asset,
\* non-suspicious path, its query without the campaign marker, adds exactly 1
\* to the organic referrals, counted for the matched engine (google for a
\* Google referrer) and for the section of the landing page, and moves no
\* crosspromo field.
C10_OrganicReferralFrame ==
    [][Len(log') = Len(log) + 1 =>
        LET e == LastEvent(log')
        IN (GoogleReferrer(e) \/ e.engine # <<>>) /\ ~e.asset /\ ~e.suspicious_path /\ ~CarriesCampaignMarker(e) =>
            /\ GoogleReferrer(e) => e.engine = <<"g","o","o","g","l","e">>
            /\ current_window'.organic_engine_counts = Inc(current_window.organic_engine_counts, e.engine)
            /\ current_window'.organic_section_counts = Inc(current_window.organic_section_counts, e.target_section)
            /\ summary(current_window').organic_referrals = summary(current_window).organic_referrals + 1
            /\ \A f \in CrosspromoFields \cup InferredCrosspropertyFields : current_window'[f] = current_window[f]]_vars

\* After a campaign hit, the landing from Google on /blog/my-post: google 1,
\* blog 1, the campaign hit still 1
C10_Witness ==
    /\ Len(log) >= 2
    /\ log[Len(log)].line = Line(IP_HOME, REQ_BLOG_MY_POST, STATUS_200, REF_GOOGLE, UA_BROWSER)
    /\ current_window.organic_engine_counts = (<<"g","o","o","g","l","e">> :> 1)
    /\ current_window.organic_section_counts = (<<"b","l","o","g">> :> 1)
    /\ current_window.crosspromo_campaign_hits = 1


\* ------------------------------------------------------- normalize_path twice

\* C11: normalize_path is idempotent: for every input string p,
\* normalize_path(normalize_path(p)) = normalize_path(p).
C11_AsStated == call.done => normalize_path(call.result) = call.result

\* The path "/a /": the trailing slash goes, the blank before it stays, and
\* the second call strips that blank
C11_FailingInput == call.done /\ call.arg = <<"/","a"," ","/">> /\ call.result = <<"/","a"," ">> /\ normalize_path(call.result) = <<"/","a">>

\* ------------------------------------------------------- summary, repeated

C13_RecordedInTimestampOrder ==
    /\ \A i \in 1..(Len(log) - 1) : log[i].ts <= log[i + 1].ts
    /\ log # <<>> /\ run.pc # "none" => Len(run.disk) = Len(LOG_FILES) /\ run.pc \in {"record", "done"}
\* The hit in the first file, the view it follows and a view of the previous
\* window in the second: recorded oldest first
C13_Witness ==
    /\ run.pc = "done" /\ Len(log) = 3
    /\ run.disk[1].lines = <<RAW_HIT>> /\ run.disk[2].lines = <<RAW_VIEW, RAW_PREVIOUS_VIEW>>
    /\ log[1].ts < log[2].ts /\ log[2].ts < log[3].ts
    /\ log[1].window = "previous" /\ log[3].line = LineOfMatch(ParsedLines[RAW_HIT])

\* ------------------------------------------------ the bounds of the history

\* The queue of a client in a history: empty when the client has none
QueueOf(hist, client_key) == IF client_key \in DOMAIN hist THEN hist[client_key] ELSE <<>>
\* The call reads the client's queue: a campaign hit with no same-site referrer
\* whose utm_content values resolve to a path, of a client with a non-empty queue
ReadsQueue(hist, e) ==
    /\ e.page /\ e.campaign /\ e.internal_referrer_path = <<>> /\ e.inferred_source_paths # <<>>
    /\ QueueOf(hist, e.client_key) # <<>>
\* The call appends to the client's queue
AppendsToQueue(e) == e.page /\ ~e.suspicious_path
\* The history right after the read of the call
HistoryAfterRead(hist, e, ts) == IF ReadsQueue(hist, e) THEN _has_recent_inferred_source_match(hist, e.client_key, e.normalized_inferred_paths, ts).hist ELSE hist
\* No entry older than ts - 30 minutes, no more than the cap, oldest first
QueueInBounds(q, ts) ==
    /\ \A i \in 1..Len(q) : q[i][1] >= ts - INFERRED_SOURCE_LOOKBACK
    /\ Len(q) <= INFERRED_SOURCE_MAX_RECENT_PATHS
    /\ \A i \in 1..(Len(q) - 1) : q[i][1] <= q[i + 1][1]
\* new is what is left of old once some of its oldest entries are removed
OldestRemoved(old, new) == \E k \in 0..Len(old) : new = SubSeq(old, k + 1, Len(old))
HistoryBoundsAt(hist, after, e, ts) ==
    /\ ReadsQueue(hist, e) =>
        /\ QueueInBounds(QueueOf(HistoryAfterRead(hist, e, ts), e.client_key), ts)
        /\ OldestRemoved(QueueOf(hist, e.client_key), QueueOf(HistoryAfterRead(hist, e, ts), e.client_key))
    /\ AppendsToQueue(e) =>
        /\ QueueInBounds(QueueOf(after, e.client_key), ts)
        /\ OldestRemoved(Append(QueueOf(HistoryAfterRead(hist, e, ts), e.client_key), <<ts, e.path>>), QueueOf(after, e.client_key))
        /\ QueueOf(after, e.client_key) # <<>>
    /\ ~AppendsToQueue(e) => after = HistoryAfterRead(hist, e, ts)
    /\ \A k \in (DOMAIN hist \cup DOMAIN after) \ {e.client_key} : QueueOf(after, k) = QueueOf(hist, k)

\* C14: with the events recorded in non-decreasing timestamp order, right
\* after every read and every append on a client's queue at event time ts the
\* queue holds no entry older than ts - 30 minutes and at most
\* INFERRED_SOURCE_MAX_RECENT_PATHS entries, its timestamps do not decrease
\* from front to back, and only its oldest entries were removed.
C14_HistoryBounds ==
    [][Len(log') = Len(log) + 1 =>
        HistoryBoundsAt(current_window.recent_content_paths_by_client, current_window'.recent_content_paths_by_client,
                        LastEvent(log'), log'[Len(log')].ts)]_vars
\* A read at 1801 dropped the two views of time 0 that filled the queue,
\* and the append left the hit alone in it
C14_Witness ==
    /\ Len(log) = 3 /\ log[1].ts = 0 /\ log[2].ts = 0 /\ log[3].ts = 1801
    /\ RememberedView(1) /\ RememberedView(2) /\ SameClient(1, 3) /\ SameClient(2, 3)
    /\ Event(3).page /\ Event(3).campaign /\ Event(3).inferred_source_paths # <<>> /\ Event(3).internal_referrer_path = <<>>
    /\ current_window.recent_content_paths_by_client[Event(3).client_key] = <<<<1801, Event(3).path>>>>

\* ---------------------------------------------- the contents of the history

\* The entry of a history comes from a recorded request of that client that
\* was neither suspicious nor an asset, and had a path
FromRememberedView(l, client_key, entry) ==
    \E i \in 1..Len(l) :
        /\ l[i].ts = entry[1] /\ Events[l[i].line].path = entry[2] /\ Events[l[i].line].client_key = client_key
        /\ Events[l[i].line].path # <<>> /\ ~is_asset_path(Events[l[i].line].path) /\ ~is_suspicious_path(Events[l[i].line].path)
OnlyRememberedViews(l, hist) == \A k \in DOMAIN hist : \A n \in 1..Len(hist[k]) : FromRememberedView(l, k, hist[k][n])
\* The queue gained exactly the entry: it is the last one, and the rest is
\* what was left of the old queue
GainedOne(old, new, entry) == new # <<>> /\ new[Len(new)] = entry /\ OldestRemoved(old \o <<entry>>, new)
AppendsExactlyOne(hist, after, e, ts) ==
    /\ \A k \in (DOMAIN hist \cup DOMAIN after) \ {e.client_key} : QueueOf(after, k) = QueueOf(hist, k)
    /\ IF e.path # <<>> /\ ~is_asset_path(e.path) /\ ~is_suspicious_path(e.path)
       THEN GainedOne(QueueOf(hist, e.client_key), QueueOf(after, e.client_key), <<ts, e.path>>)
       ELSE OldestRemoved(QueueOf(hist, e.client_key), QueueOf(after, e.client_key))

\* C15: the history of every client holds only paths of requests that were
\* neither suspicious nor assets, and had a path; every such request,
\* campaign-tagged or not, appends exactly one (timestamp, path) entry to the
\* history of its own client and to no other, and no other request appends any.
C15_HistoryContents ==
    [][Len(log') = Len(log) + 1 =>
        /\ OnlyRememberedViews(log', current_window'.recent_content_paths_by_client)
        /\ AppendsExactlyOne(current_window.recent_content_paths_by_client, current_window'.recent_content_paths_by_client,
                             LastEvent(log'), log'[Len(log')].ts)]_vars
\* A probe, an asset and a campaign hit of one client: the hit alone is in
\* the history of the client
C15_Witness ==
    /\ Len(log) = 3 /\ SameClient(1, 3) /\ SameClient(2, 3)
    /\ Event(1).suspicious_path /\ Event(1).path # <<>>
    /\ is_asset_path(Event(2).path) /\ ~Event(2).suspicious_path
    /\ Event(3).page /\ Event(3).campaign /\ ~Event(3).suspicious_path
    /\ current_window.recent_content_paths_by_client = (Event(3).client_key :> <<<<log[3].ts, Event(3).path>>>>)

\* ------------------------------------------------------ suspected automation

\* The three signals of suspected automation, read from the line of the call
LacksReferrer(i) == Strip(log[i].line.ref) \in {<<>>, <<"-">>}
SpoofedMobileSignature(i) == Strip(log[i].line.ua) = SUSPECTED_CROSSPROMO_SPOOFED_MOBILE_UA
DatacenterAddress(i) == \E prefix \in SUSPECTED_CROSSPROMO_DATACENTER_IP_PREFIXES : StartsWith(log[i].line.ip, prefix)
AllThreeSignals(i) == LacksReferrer(i) /\ SpoofedMobileSignature(i) /\ DatacenterAddress(i)
FlaggedAutomation(i) == "crosspromo_suspected_automation_hits" \in log[i].moved
CountedAsBot(i) == "crosspromo_known_bot_hits" \in log[i].moved
CountedAsHuman(i) == ~CountedAsBot(i) /\ "crosspromo_non_bot_campaign_target_sections" \in log[i].moved

\* C16: a campaign hit is flagged suspected automation only if it has no
\* referrer, the spoofed mobile user agent and a datacenter address, all three;
\* a hit missing one of them is never counted in
\* crosspromo_suspected_automation_hits, and is counted as human unless its
\* user agent matches the known-bot table.
C16_AutomationNeedsAllThree ==
    \A i \in Calls :
        /\ FlaggedAutomation(i) => CountedAsCampaignHit(i) /\ AllThreeSignals(i)
        /\ CountedAsCampaignHit(i) /\ ~AllThreeSignals(i) =>
            /\ ~FlaggedAutomation(i)
            /\ CountedAsHuman(i) <=> ~Event(i).known_bot_ua
            /\ CountedAsBot(i) <=> Event(i).known_bot_ua
\* Three hits, each missing one signal only: the referrer present, a browser
\* user agent, a home address; none flagged, all three human
C16_Witness ==
    /\ Len(log) = 3 /\ \A i \in Calls : CountedAsCampaignHit(i) /\ ~FlaggedAutomation(i) /\ CountedAsHuman(i)
    /\ ~LacksReferrer(1) /\ SpoofedMobileSignature(1) /\ DatacenterAddress(1)
    /\ LacksReferrer(2) /\ ~SpoofedMobileSignature(2) /\ DatacenterAddress(2)
    /\ LacksReferrer(3) /\ SpoofedMobileSignature(3) /\ ~DatacenterAddress(3)
    /\ summary(current_window).crosspromo_suspected_automation_hits = 0
    /\ summary(current_window).crosspromo_non_bot_hits = 3

\* ------------------------------------------------------- the human-only view

\* The crosspromo_non_bot_* integer fields and Counters of the window, each
\* with its unconditional counterpart
NonBotIntFields ==
    { <<"crosspromo_non_bot_hits_with_internal_referrer", "crosspromo_hits_with_internal_referrer">>,
      <<"crosspromo_non_bot_hits_with_inferred_source", "crosspromo_hits_with_inferred_source">>,
      <<"crosspromo_non_bot_hits_unattributed", "crosspromo_hits_unattributed">>,
      <<"crosspromo_non_bot_hits_with_any_referrer", "crosspromo_hits_with_any_referrer">>,
      <<"crosspromo_non_bot_hits_without_referrer", "crosspromo_hits_without_referrer">>,
      <<"crosspromo_non_bot_hits_with_param_source", "crosspromo_hits_with_param_source">>,
      <<"crosspromo_non_bot_hits_with_param_source_without_referrer", "crosspromo_hits_with_param_source_without_referrer">>,
      <<"crosspromo_non_bot_inferred_verified_hits", "crosspromo_inferred_verified_hits">>,
      <<"crosspromo_non_bot_inferred_unverified_hits", "crosspromo_inferred_unverified_hits">> }
NonBotCounterFields ==
    { <<"crosspromo_non_bot_campaign_target_sections", "crosspromo_campaign_target_sections">>,
      <<"crosspromo_non_bot_campaign_sources", "crosspromo_campaign_sources">>,
      <<"crosspromo_non_bot_campaign_source_target_sections", "crosspromo_campaign_source_target_sections">>,
      <<"crosspromo_non_bot_campaign_param_source_pages", "crosspromo_campaign_param_source_pages">>,
      <<"crosspromo_non_bot_campaign_param_source_sections", "crosspromo_campaign_param_source_sections">>,
      <<"crosspromo_non_bot_campaign_source_pages", "crosspromo_campaign_source_pages">>,
      <<"crosspromo_non_bot_campaign_source_sections", "crosspromo_campaign_source_sections">>,
      <<"crosspromo_non_bot_campaign_page_path_pairs", "crosspromo_campaign_page_path_pairs">> }
HumanHitsByOutcome(self) ==
    self.crosspromo_non_bot_hits_with_internal_referrer + self.crosspromo_non_bot_hits_with_inferred_source + self.crosspromo_non_bot_hits_unattributed

\* C19: after any sequence of record calls every crosspromo_non_bot_* counter
\* is at most its unconditional counterpart (key by key for a Counter), and
\* the human hits of the summary, campaign hits minus known-bot hits, are the
\* sum of the human hits with a same-site referrer, with an inferred source
\* and unattributed.
C19_HumanViewConsistent ==
    /\ \A f \in NonBotIntFields : current_window[f[1]] <= current_window[f[2]]
    /\ \A f \in NonBotCounterFields : \A k \in DOMAIN current_window[f[1]] : current_window[f[1]][k] <= Get(current_window[f[2]], k)
    /\ summary(current_window).crosspromo_non_bot_hits = current_window.crosspromo_campaign_hits - current_window.crosspromo_known_bot_hits
    /\ summary(current_window).crosspromo_non_bot_hits = HumanHitsByOutcome(current_window)
\* A human hit and two bot hits, of a bot user agent and of suspected
\* automation: one human hit among the three
C19_Witness ==
    /\ current_window.crosspromo_campaign_hits = 3 /\ current_window.crosspromo_known_bot_hits = 2
    /\ current_window.crosspromo_suspected_automation_hits = 1
    /\ current_window.crosspromo_hits_with_inferred_source = 3 /\ current_window.crosspromo_non_bot_hits_with_inferred_source = 1
    /\ HumanHitsByOutcome(current_window) = 1

\* ------------------------------------------------ cross-property referrals

\* The counters of the internal cross-property referrals of record
CrosspropertyReferralFields ==
    {"internal_crossproperty_referrals", "internal_crossproperty_non_bot_referrals",
     "internal_crossproperty_target_sections", "internal_crossproperty_source_sections",
     "internal_crossproperty_target_pages", "internal_crossproperty_source_pages",
     "internal_crossproperty_non_bot_target_sections", "internal_crossproperty_non_bot_source_sections",
     "internal_crossproperty_non_bot_target_pages", "internal_crossproperty_non_bot_source_pages"}
CountsCrosspropertyReferral(i) == log[i].moved \cap CrosspropertyReferralFields # {}
\* The section of the path of the referrer and of the target of call i
ReferrerPathSection(i) == classify_content_section(Event(i).internal_referrer_path)
TargetPathSection(i) == classify_content_section(Event(i).path)

\* C20: record increments the internal cross-property referral counters only
\* for a request with a same-site referrer whose path is of another section
\* than the target path, and only when the request is no asset, not suspicious
\* and its target section is one of the kit sections; a request whose referrer
\* section is its target section never increments internal_crossproperty_referrals.
C20_CrosspropertyReferrals ==
    \A i \in Calls :
        /\ CountsCrosspropertyReferral(i) =>
            /\ SameSiteReferrer(Event(i)) /\ Event(i).internal_referrer_path # <<>>
            /\ ReferrerPathSection(i) # TargetPathSection(i)
            /\ Event(i).path # <<>> /\ ~is_asset_path(Event(i).path) /\ ~is_suspicious_path(Event(i).path)
            /\ TargetPathSection(i) \in INTERNAL_CROSSPROPERTY_TARGETS
        /\ Event(i).internal_referrer_path # <<>> /\ ReferrerPathSection(i) = TargetPathSection(i) =>
            "internal_crossproperty_referrals" \notin log[i].moved
\* A click from a blog page to /datekit, counted, and a click from a page of
\* /datekit to /datekit, not counted
C20_Witness ==
    /\ Len(log) = 2 /\ current_window.internal_crossproperty_referrals = 1
    /\ CountsCrosspropertyReferral(1) /\ ReferrerPathSection(1) = <<"b","l","o","g">> /\ TargetPathSection(1) = <<"d","a","t","e","k","i","t">>
    /\ ~CountsCrosspropertyReferral(2) /\ ReferrerPathSection(2) = <<"d","a","t","e","k","i","t">> /\ TargetPathSection(2) = <<"d","a","t","e","k","i","t">>
    /\ Event(2).page /\ ~Event(2).suspicious_path

\* ------------------------------------------------------- log files not read

\* The pass of main's loop over the log files that a step makes, if any: the
\* number of the file and the file the process found
ReadsAFile == run.pc = "read" /\ run'.pc # "none" /\ Len(run'.disk) = Len(run.disk) + 1
FileRead == run'.disk[Len(run'.disk)]
\* The process is denied the file; its read fails for good
PermissionDenied(file) == file.state \in {"unsearchable", "denied, sudo reads", "denied, sudo fails"}
ReadFails(file) == file.state \in {"denied, sudo fails", "unreadable"}
RetriedOnce == run'.sudo = Append(run.sudo, Len(run'.disk))
ReportedOnStderr == run'.stderr = Append(run.stderr, Len(run'.disk))
GoesOn == run'.pc = (IF Len(run'.disk) = Len(LOG_FILES) THEN "sort" ELSE "read")

\* C17 as stated: no failure to read a log file is fatal: a missing file
\* yields no lines and no error; a file the process is denied is retried
\* exactly once through sudo; if the retry or any other read fails, the error
\* is reported on standard error, the file contributes no events, and the run
\* goes on with the remaining files and to its report.
C17_AsStated ==
    [][ReadsAFile =>
        /\ FileRead.state = "missing" => run'.events = run.events /\ run'.sudo = run.sudo /\ run'.stderr = run.stderr /\ GoesOn
        /\ PermissionDenied(FileRead) => RetriedOnce
        /\ ~PermissionDenied(FileRead) => run'.sudo = run.sudo
        /\ ReadFails(FileRead) => ReportedOnStderr /\ run'.events = run.events /\ GoesOn
        /\ ~ReadFails(FileRead) => run'.stderr = run.stderr]_vars
\* The first log file holds a page view, in a directory the process may not
\* search, the second is missing: no sudo, nothing on standard error, and a
\* report of no request
C17_FailingInput ==
    /\ run.pc = "done" /\ Len(run.disk) = 2
    /\ run.disk[1].state = "unsearchable" /\ run.disk[1].lines = <<RAW_VIEW>> /\ run.disk[2].state = "missing"
    /\ run.sudo = <<>> /\ run.stderr = <<>> /\ log = <<>> /\ report.summary.total_requests = 0

\* ---------------------------------------------------------- lines skipped

\* The lines of the model that match the grammar and carry a timestamp that
\* can be parsed, each with the time it denotes, in seconds before now; the
\* others are off the grammar or carry a timestamp that cannot be parsed
SecondsBeforeNow == (RAW_VIEW :> 600) @@ (RAW_HIT :> 300) @@ (RAW_PREVIOUS_VIEW :> 5400) @@ (RAW_OLD_VIEW :> 10800)
WellFormedLines == DOMAIN SecondsBeforeNow
RequestOf == (RAW_VIEW :> REQ_BLOG_FOO) @@ (RAW_HIT :> REQ_HIT_FOO) @@ (RAW_PREVIOUS_VIEW :> REQ_BLOG_FOO) @@ (RAW_OLD_VIEW :> REQ_BLOG_FOO)
\* The event of a well-formed line, and whether main keeps it: the line is of
\* the last hour, or of the last two hours with --compare-previous
EventOfRawLine(raw) == [ts |-> NOW - SecondsBeforeNow[raw], line |-> Line(IP_HOME, RequestOf[raw], STATUS_200, NO_REFERRER, UA_BROWSER)]
InAnalysedRange(raw, args) == SecondsBeforeNow[raw] <= (IF args.compare_previous THEN 7200 ELSE 3600)
\* The events of the lines of a file, the other lines skipped
RECURSIVE EventsOfWellFormed(_, _)
EventsOfWellFormed(lines, args) ==
    IF lines = <<>> THEN <<>>
    ELSE (IF Head(lines) \in WellFormedLines /\ InAnalysedRange(Head(lines), args) THEN <<EventOfRawLine(Head(lines))>> ELSE <<>>)
             \o EventsOfWellFormed(Tail(lines), args)
ReadsLinesOf(file) == file.state \in {"readable", "denied, sudo reads"}

\* C18 as stated: a line that does not match the grammar of the log, or whose
\* timestamp cannot be parsed, is skipped silently: it gives no event, changes
\* no counter of any window, and does not stop the processing of the lines
\* that follow it in the file.
C18_AsStated ==
    [][ReadsAFile /\ ReadsLinesOf(FileRead) =>
        /\ run'.events = run.events \o EventsOfWellFormed(FileRead.lines, run.args)
        /\ run'.pc # "aborted" /\ run'.stderr = run.stderr
        /\ current_window' = current_window /\ run'.previous_window = run.previous_window /\ log' = log]_vars
\* A line dated a second before the end of year 9999, an hour west of UTC,
\* then a page view: OverflowError, and main is over before the view is read
C18_FailingInput ==
    /\ run.pc = "aborted" /\ run.raised = "OverflowError"
    /\ Len(run.disk) = 1 /\ run.disk[1].state = "readable" /\ run.disk[1].lines = <<RAW_PAST_MAX, RAW_VIEW>>
    /\ run.events = <<>> /\ report.calls = 0


\* ------------------------------------------- the readings of utm_content

\* The utm_content text of a hit of SpecSources
IsSourceHit(line) == \E source \in Sources : line.req = HitWith(source)
SourceOf(line) == CHOOSE source \in Sources : line.req = HitWith(source)
\* The calls of the log that counted a campaign hit of SpecSources
SourceHits == {i \in Calls : IsSourceHit(log[i].line) /\ CountedAsCampaignHit(i)}

\* What each utm_content text of SpecSources is read as: the path of a URL of
\* the site, a path, the path of a section keyword, the post of a slug; the
\* keyword and the slug in any letter case
ReadAsUrl == {SRC_URL, SRC_URL_WWW_QUERY}
ReadAsPath == {SRC_PATH, SRC_PATH_SLASHES, SRC_PATH_BLANKS_AROUND, SRC_PATH_BLANK_INSIDE, SRC_PATH_QUERY}
ReadAsKeyword == {SRC_KEYWORD, SRC_KEYWORD_UPPER, SRC_KEYWORD_HOME}
ReadAsSlug == {SRC_SLUG, SRC_SLUG_UPPER, SRC_NONE_THEN_SLUG}
ReadAsNothing == {SRC_URL_FOREIGN, SRC_URL_PORT, SRC_URL_UPPER_SCHEME, SRC_RELATIVE, SRC_UNDERSCORE, SRC_HYPHEN_FIRST, SRC_EMPTY}
\* The path each text stands for
PathRead(source) ==
    IF source \in ReadAsUrl \cup ReadAsSlug \cup {SRC_PATH, SRC_PATH_SLASHES, SRC_PATH_BLANKS_AROUND} THEN <<"/","b","l","o","g","/","f","o","o">>
    ELSE IF source = SRC_PATH_BLANK_INSIDE THEN <<"/","b","l","o","g","/"," ","f","o","o">>
    ELSE IF source = SRC_PATH_QUERY THEN <<"/","b","l","o","g","/","f","o","o","?","r","e","f","=","1">>
    ELSE IF source = SRC_KEYWORD_HOME THEN <<"/">>
    ELSE <<"/","b","l","o","g">>
\* The texts whose letters are not all of the slug pattern or of the keyword table
UpperCased == {SRC_KEYWORD_UPPER, SRC_SLUG_UPPER}

\* The hits of the log whose utm_content is one of texts, and the pages the
\* parameter-source Counter must then hold
PagesRead(hits, texts) == {PathRead(SourceOf(log[i].line)) : i \in {j \in hits : SourceOf(log[j].line) \in texts}}
\* Of a hit without same-site referrer: it is attributed to its parameter
\* when its text is one of texts, and unattributed when it is not
AttributedByParameter(i, texts) ==
    IF SourceOf(log[i].line) \in texts
    THEN "crosspromo_hits_with_inferred_source" \in log[i].moved /\ UNATTRIBUTED \notin log[i].moved /\ DIRECT \notin log[i].moved
    ELSE Outcomes(i) = {UNATTRIBUTED} /\ "crosspromo_hits_with_inferred_source" \notin log[i].moved
ReadingsHold(texts) ==
    /\ \A i \in SourceHits : Event(i).internal_referrer_path = <<>> => AttributedByParameter(i, texts)
    /\ DOMAIN current_window.crosspromo_campaign_param_source_pages = PagesRead(SourceHits, texts)
    /\ \A i \in SourceHits : Event(i).normalized_inferred_paths = PagesRead({i}, texts)

\* C21: each utm_content value of a campaign hit is read, in this order, as a
\* URL that starts with http:// or https:// and whose host is the site (its
\* normalized path), as a path starting with "/", as a section keyword in any
\* letter case (blog -> /blog), or as a slug in any letter case
\* (Foo -> /blog/foo); any other value (a URL of another host, of another port
\* or with an upper-case scheme, a relative path, a value with an underscore or
\* a leading hyphen) is discarded, and a campaign hit with no same-site
\* referrer and no value that can be read is counted as unattributed.
C21_SourceReadings == ReadingsHold(Sources \ ReadAsNothing)

\* The hit with utm_content=Foo, attributed to /blog/foo, and the hit with
\* utm_content=foo_bar, unattributed
C21_Witness ==
    /\ Len(log) = 2 /\ SourceHits = {1, 2}
    /\ SourceOf(log[1].line) = SRC_SLUG_UPPER /\ SourceOf(log[2].line) = SRC_UNDERSCORE
    /\ Event(1).internal_referrer_path = <<>> /\ Event(2).internal_referrer_path = <<>>
    /\ DOMAIN current_window.crosspromo_campaign_source_pages = {<<"/","b","l","o","g","/","f","o","o">>}
    /\ current_window.crosspromo_hits_with_inferred_source = 1
    /\ current_window.crosspromo_hits_unattributed = 1

\* C21 as stated: a value with characters outside the slug pattern (lower-case
\* letters, digits, hyphens) that is no URL and no path is discarded
C21_AsStated == ReadingsHold(Sources \ (ReadAsNothing \cup UpperCased))

\* ------------------------------------------------- the host of the referrer

\* The host of the referrer holds the name of a search engine of ENGINE_PATTERNS
EngineHost(referrer) == \E k \in 1..Len(ENGINE_PATTERNS) : Contains(Lower(urlparse(referrer).netloc), ENGINE_PATTERNS[k][1])
\* The call counted an organic search referral
CountedAsOrganic(i) == "organic_engine_counts" \in log[i].moved

\* C22: an organic search referral is counted only when the host of the
\* referrer is one of the known search-engine domains: a request whose referrer
\* is a page of the site, or names an engine only in its path or query string,
\* never increments organic_referrals.
C22_AsStated ==
    /\ \A i \in Calls : CountedAsOrganic(i) => EngineHost(Event(i).referrer)
    /\ summary(current_window).organic_referrals = Cardinality({i \in Calls : EngineHost(Event(i).referrer)})

\* A view of /blog/my-post arriving from /blog/foo?from=google.com of the site
\* itself, counted as an organic referral of google
C22_FailingInput ==
    /\ Len(log) = 1 /\ Event(1).referrer = REF_SITE_ENGINE_QUERY
    /\ Event(1).internal_referrer_path = <<"/","b","l","o","g","/","f","o","o">>
    /\ ~EngineHost(Event(1).referrer)
    /\ summary(current_window).organic_referrals = 1
    /\ current_window.organic_engine_counts = (<<"g","o","o","g","l","e">> :> 1)

\* --------------------------------------------- the spellings of one page

\* The utm_content texts of SpecSources that name the page /blog/foo: as a
\* URL of the site (with doubled slashes, a trailing slash and a query), as a
\* path (with doubled slashes, a trailing slash, blanks around it, a blank
\* inside it, a query)
SpellingsOfBlogFoo == {SRC_URL, SRC_URL_WWW_QUERY, SRC_PATH, SRC_PATH_SLASHES, SRC_PATH_BLANKS_AROUND, SRC_PATH_BLANK_INSIDE, SRC_PATH_QUERY}
\* Call i is a view of /blog/foo by the client of call j, before it and
\* within the lookback of it
ViewedBlogFooBefore(i, j) ==
    /\ i < j /\ RememberedView(i) /\ SameClient(i, j)
    /\ Event(i).path = <<"/","b","l","o","g","/","f","o","o">>
    /\ log[j].ts - log[i].ts <= INFERRED_SOURCE_LOOKBACK
\* The hits that name /blog/foo in one of the spellings
HitsNaming(spellings) == {j \in SourceHits : SourceOf(log[j].line) \in spellings}
\* A hit that names a page the client has just viewed is verified, and a hit
\* that names the page it arrives from counts no source mismatch
ComparesEqual(spellings) ==
    \A j \in HitsNaming(spellings) :
        /\ Event(j).internal_referrer_path = <<>> /\ (\E i \in Calls : ViewedBlogFooBefore(i, j)) => VERIFIED \in log[j].moved
        /\ Event(j).internal_referrer_path = <<"/","b","l","o","g","/","f","o","o">> => "crosspromo_source_mismatch_hits" \notin log[j].moved

\* C23: request paths, same-site referrer paths and paths recovered from
\* utm_content are compared after identical normalization: if a client viewed
\* a page and, within the horizon, its campaign hit names that page in
\* utm_content in any other spelling (duplicate slashes, a trailing slash,
\* surrounding or embedded whitespace, a query suffix, a leading-slash path or
\* a same-site absolute URL), the paths compare equal and the hit is verified.
C23_AsStated == ComparesEqual(SpellingsOfBlogFoo)

\* A view of /blog/foo, requested as //blog//foo/?page=2, and ten minutes
\* later the client's hit with utm_content=/blog/foo?ref=1: unverified, its
\* source page counted as /blog/foo?ref=1
C23_FailingInput ==
    /\ Len(log) = 2 /\ log[1].line.req = REQ_BLOG_FOO_SLASHES /\ Event(1).path = <<"/","b","l","o","g","/","f","o","o">>
    /\ SourceHits = {2} /\ SourceOf(log[2].line) = SRC_PATH_QUERY /\ Event(2).internal_referrer_path = <<>>
    /\ ViewedBlogFooBefore(1, 2)
    /\ UNVERIFIED \in log[2].moved /\ VERIFIED \notin log[2].moved
    /\ DOMAIN current_window.crosspromo_campaign_source_pages = {<<"/","b","l","o","g","/","f","o","o","?","r","e","f","=","1">>}

\* ------------------------------------------------------- the two windows

\* H, in seconds: max(1, hours) hours
WindowLength == 3600 * (IF run.args.hours >= 1 THEN run.args.hours ELSE 1)
\* The window the claim gives an instant: the current one from now - H on,
\* with --compare-previous the previous one from now - 2H to now - H, and none
WindowOf(ts) ==
    IF ts >= NOW - WindowLength THEN "current"
    ELSE IF run.args.compare_previous /\ ts >= NOW - 2 * WindowLength THEN "previous"
    ELSE "none"
\* The lines of the two log files, and the instants of those of a window
LinesOnDisk == Flatten([f \in DOMAIN run.disk |-> run.disk[f].lines])
LinesOf(window) == {k \in 1..Len(LinesOnDisk) : WindowOf(ParsedLines[LinesOnDisk[k]].time.ts) = window}
RecordedIn(window) == {i \in Calls : log[i].window = window}
\* The requests the previous window has counted
PreviousTotal == IF run.args.compare_previous THEN run.previous_window.total_requests ELSE 0

\* C24: with --compare-previous and window length H = max(1, hours), the two
\* windows are adjacent and of equal length, and every parsed event is
\* recorded in at most one of them: an event with timestamp >= now - H only in
\* the current window, an event with now - 2H <= timestamp < now - H only in
\* the previous window, and an older event in neither; without
\* --compare-previous only the events with timestamp >= now - H are recorded.
C24_WindowsPartitionEvents ==
    run.pc \in {"record", "done"} =>
        /\ \A i \in Calls : log[i].window = WindowOf(log[i].ts)
        /\ current_window.total_requests = Cardinality(RecordedIn("current"))
        /\ PreviousTotal = Cardinality(RecordedIn("previous"))
        /\ run.pc = "done" =>
            /\ Cardinality(RecordedIn("current")) = Cardinality(LinesOf("current"))
            /\ Cardinality(RecordedIn("previous")) = Cardinality(LinesOf("previous"))

\* A run with --hours 0 --compare-previous on lines at now - 1h, a second
\* before it, at now - 2h and a second before that: the first in the current
\* window, the next two in the previous one, the last in neither
C24_Witness ==
    /\ run.pc = "done" /\ run.args = [hours |-> 0, compare_previous |-> TRUE]
    /\ run.disk[1].lines = <<RAW_HIT_HOUR_AGO, RAW_VIEW_OVER_TWO_HOURS_AGO>>
    /\ run.disk[2].lines = <<RAW_VIEW_OVER_HOUR_AGO, RAW_HIT_TWO_HOURS_AGO>>
    /\ Len(log) = 3
    /\ log[1].ts = NOW - 7200 /\ log[1].window = "previous"
    /\ log[2].ts = NOW - 3601 /\ log[2].window = "previous"
    /\ log[3].ts = NOW - 3600 /\ log[3].window = "current"
    /\ current_window.total_requests = 1 /\ run.previous_window.total_requests = 2

\* -------------------------------------------------- one history per client

\* The client of a line as the claim defines it: the address and the user
\* agent, the address alone when the user agent is absent or "-"
ClientOf(line) == <<line.ip, IF line.ua \in {<<>>, <<"-">>} THEN <<>> ELSE line.ua>>
\* The calls of the log up to call j made for the client of call j, in order
OwnCalls(j) == SelectSeq(SubSeq(log, 1, j), LAMBDA c : ClientOf(c.line) = ClientOf(log[j].line))
\* The window after the first n calls of a list, recorded on a new window
RECURSIVE Replayed(_, _)
Replayed(calls, n) == IF n = 0 THEN NewWindowStats ELSE record(Replayed(calls, n - 1), Events[calls[n].line], calls[n].ts)
\* The outcome counters the last call of a list moves when the list is all
\* that is recorded
OutcomeAlone(calls) == Moved(Replayed(calls, Len(calls) - 1), Replayed(calls, Len(calls))) \cap OutcomeCounters
\* Call i is a view, by the client of call j, of a page call j names, before
\* it and within the lookback
OwnViewBefore(i, j) ==
    /\ i < j /\ RememberedView(i) /\ ClientOf(log[i].line) = ClientOf(log[j].line)
    /\ Event(i).path \in ResolvedPaths(j)
    /\ log[j].ts - log[i].ts <= INFERRED_SOURCE_LOOKBACK

\* C25: recency verification is isolated per client key (the address and the
\* normalized user agent, the address alone when the user agent is absent or
\* "-"): a hit is verified only by a view of its own client, and its outcome
\* is the one it has when the calls of every other client are left out of the
\* stream.
C25_ClientsIsolated ==
    \A j \in Calls : CountedAsCampaignHit(j) =>
        /\ Outcomes(j) = OutcomeAlone(OwnCalls(j))
        /\ VERIFIED \in log[j].moved => \E i \in Calls : OwnViewBefore(i, j)

\* Views of /blog/foo by curl from the address of the client and by the same
\* browser from another address, then the client's hit ten minutes later:
\* unverified, as when it is the only call recorded
C25_Witness ==
    /\ Len(log) = 3
    /\ log[3].line = Line(IP_HOME, REQ_HIT_FOO, STATUS_200, NO_REFERRER, UA_BROWSER) /\ log[3].ts = 600
    /\ log[1].line = Line(IP_HOME, REQ_BLOG_FOO, STATUS_200, NO_REFERRER, UA_CURL)
    /\ log[2].line = Line(IP_DATACENTER, REQ_BLOG_FOO, STATUS_200, NO_REFERRER, UA_BROWSER)
    /\ Outcomes(3) = {UNVERIFIED}
    /\ Len(OwnCalls(3)) = 1

\* ------------------------------------------------ a hit that names itself

\* Call j is a campaign hit without same-site referrer whose utm_content
\* resolves to its own landing path
NamesItself(j) == CountedAsCampaignHit(j) /\ Event(j).internal_referrer_path = <<>> /\ ResolvedPaths(j) = {Event(j).path}
\* The newest entry of the queue of the client of a request
NewestEntry(hist, e) == QueueOf(hist, e.client_key)[Len(QueueOf(hist, e.client_key))]

\* C26: a campaign hit never verifies itself: within one record call the
\* recency lookup runs before the landing path of the hit is appended to the
\* history of the client, so a hit on path p whose utm_content resolves to p
\* is verified only if the same client key had an earlier view of p within the
\* horizon (up to the cap of the queue, exactly then).
C26_NoSelfVerification ==
    \A j \in Calls : NamesItself(j) =>
        /\ Outcomes(j) \in {{VERIFIED}, {UNVERIFIED}}
        /\ VERIFIED \in log[j].moved => \E i \in Calls : OwnViewBefore(i, j)
        /\ j <= INFERRED_SOURCE_MAX_RECENT_PATHS + 1 /\ (\E i \in Calls : OwnViewBefore(i, j)) => VERIFIED \in log[j].moved
        /\ j = Len(log) => NewestEntry(current_window.recent_content_paths_by_client, Event(j)) = <<log[j].ts, Event(j).path>>

\* A hit on /blog/foo with utm_content=foo as the first call of its client,
\* after the same hit by another client: unverified, and remembered as a view
\* of /blog/foo; the client's next such hit is verified by it
C26_Witness ==
    /\ Len(log) = 3
    /\ log[1].line = Line(IP_HOME, REQ_SELF_HIT, STATUS_200, NO_REFERRER, UA_CURL)
    /\ log[2].line = Line(IP_HOME, REQ_SELF_HIT, STATUS_200, NO_REFERRER, UA_BROWSER)
    /\ log[3].line = Line(IP_HOME, REQ_SELF_HIT_URL, STATUS_200, NO_REFERRER, UA_BROWSER)
    /\ NamesItself(1) /\ NamesItself(2) /\ NamesItself(3)
    /\ Outcomes(1) = {UNVERIFIED} /\ Outcomes(2) = {UNVERIFIED} /\ Outcomes(3) = {VERIFIED}

\* ------------------------------------------------ the edge of the horizon

\* The entries of a queue that are not older than ts - 30 minutes, and the
\* newest INFERRED_SOURCE_MAX_RECENT_PATHS entries of a queue
NotOlderThanHorizon(q, ts) == SelectSeq(q, LAMBDA entry : entry[1] >= ts - INFERRED_SOURCE_LOOKBACK)
NewestOf(q) == SubSeq(q, IF Len(q) > INFERRED_SOURCE_MAX_RECENT_PATHS THEN Len(q) - INFERRED_SOURCE_MAX_RECENT_PATHS + 1 ELSE 1, Len(q))
\* The queue of the client of a request after its record call at ts: what a
\* read leaves, and what the append leaves
QueueAfterCall(old, hist, e, ts) ==
    IF AppendsToQueue(e) THEN NewestOf(Append(NotOlderThanHorizon(old, ts), <<ts, e.path>>))
    ELSE IF ReadsQueue(hist, e) THEN NotOlderThanHorizon(old, ts)
    ELSE old
\* The entries a call removed from a queue: its oldest ones
RemovedBy(old, new, e) == SubSeq(old, 1, Len(old) + (IF AppendsToQueue(e) THEN 1 ELSE 0) - Len(new))
\* Call i is a view, by the client of call j, of a page call j names, exactly
\* the lookback before it
ViewedAtHorizon(i, j) ==
    /\ i < j /\ RememberedView(i) /\ SameClient(i, j) /\ Event(i).path \in ResolvedPaths(j)
    /\ log[j].ts = log[i].ts + INFERRED_SOURCE_LOOKBACK
\* Call j is a campaign hit that is attributed by its parameter
AttributedByItsParameter(j) == CountedAsCampaignHit(j) /\ Event(j).internal_referrer_path = <<>> /\ ResolvedPaths(j) # {}
HorizonIsInclusive ==
    \A j \in Calls : AttributedByItsParameter(j) =>
        /\ (\E i \in Calls : ViewedAtHorizon(i, j) /\ Cardinality(LaterViews(i, j)) < INFERRED_SOURCE_MAX_RECENT_PATHS) => Outcomes(j) = {VERIFIED}
        /\ (\A p \in ResolvedPaths(j) : EveryViewTooOld(j, p)) => Outcomes(j) = {UNVERIFIED}

\* C27: the lookback horizon is inclusive at its boundary: the trim of a
\* client's queue at event time ts removes exactly the entries strictly older
\* than ts - 30 minutes (an entry within the horizon leaves the queue only
\* through the cap of INFERRED_SOURCE_MAX_RECENT_PATHS entries), so a page view
\* recorded exactly 30 minutes before a campaign hit, with fewer views than
\* the cap after it, still verifies the hit, and views recorded 30 minutes and
\* one second before do not.
C27_InclusiveHorizon ==
    /\ []HorizonIsInclusive
    /\ [][Len(log') = Len(log) + 1 =>
            QueueOf(current_window'.recent_content_paths_by_client, LastEvent(log').client_key)
                = QueueAfterCall(QueueOf(current_window.recent_content_paths_by_client, LastEvent(log').client_key),
                                 current_window.recent_content_paths_by_client, LastEvent(log'), log'[Len(log')].ts)]_vars

\* A view of /blog/foo at 0 and the client's hit that names it at 30 minutes:
\* verified, the view still in the queue; a second hit a second later is not
C27_Witness ==
    /\ Len(log) = 3 /\ log[1].ts = 0 /\ log[2].ts = INFERRED_SOURCE_LOOKBACK /\ log[3].ts = INFERRED_SOURCE_LOOKBACK + 1
    /\ ViewedAtHorizon(1, 2) /\ AttributedByItsParameter(2) /\ Outcomes(2) = {VERIFIED}
    /\ AttributedByItsParameter(3) /\ ResolvedPaths(3) = {Event(1).path} /\ Outcomes(3) = {UNVERIFIED}
    /\ Event(2).path # Event(1).path /\ Event(3).path # Event(1).path

\* C27 as stated: an entry is evicted only when its timestamp is strictly
\* older than ts - 30 minutes.
C27_AsStated ==
    [][Len(log') = Len(log) + 1 =>
        \A k \in DOMAIN current_window.recent_content_paths_by_client :
            LET removed == RemovedBy(current_window.recent_content_paths_by_client[k], QueueOf(current_window'.recent_content_paths_by_client, k), LastEvent(log'))
            IN k = LastEvent(log').client_key => \A n \in 1..Len(removed) : removed[n][1] < log'[Len(log')].ts - INFERRED_SOURCE_LOOKBACK]_vars

\* ------------------------------------------------ one history per window

\* Call i is a view, by the client of call j, of a page call j names, within
\* the lookback before it
ViewedShortlyBefore(i, j) ==
    /\ i < j /\ RememberedView(i) /\ SameClient(i, j) /\ Event(i).path \in ResolvedPaths(j)
    /\ log[j].ts - log[i].ts <= INFERRED_SOURCE_LOOKBACK
\* The lines on disk that are views of /blog/foo older than the analysed range
DroppedViews == {k \in LinesOf("none") : LinesOnDisk[k] \in {RAW_VIEW_OVER_HOUR_AGO, RAW_VIEW_OVER_TWO_HOURS_AGO, RAW_VIEW_FOUR_HOURS_AGO, RAW_VIEW_OVER_FOUR_HOURS_AGO}}

\* C28: the windows keep independent recent-path histories: a campaign hit is
\* verified only by a page view of its client that lies in the hit's own
\* window, never by one of the other window, however close in time; and an
\* event older than the start of the analysed range is never recorded, so
\* that a view older than the range verifies no hit.
C28_HistoriesPerWindow ==
    run.pc \in {"record", "done"} =>
        /\ \A i \in Calls : WindowOf(log[i].ts) # "none"
        /\ \A j \in Calls : VERIFIED \in Outcomes(j) =>
                \E i \in Calls : ViewedShortlyBefore(i, j) /\ WindowOf(log[i].ts) = WindowOf(log[j].ts)

\* --hours 0 --compare-previous: the view of /blog/foo over two hours ago is
\* dropped and the hit one second after it, in the previous window, is
\* unverified; the view over an hour ago is in the previous window and the hit
\* one second after it, in the current window, is unverified
C28_Witness ==
    /\ run.pc = "done" /\ run.args = [hours |-> 0, compare_previous |-> TRUE]
    /\ Cardinality(DroppedViews) = 1 /\ Len(LinesOnDisk) = 4
    /\ Len(log) = 3
    /\ log[1].ts = NOW - 7200 /\ log[1].window = "previous" /\ Outcomes(1) = {UNVERIFIED}
    /\ log[2].ts = NOW - 3601 /\ log[2].window = "previous" /\ RememberedView(2)
    /\ log[3].ts = NOW - 3600 /\ log[3].window = "current" /\ Outcomes(3) = {UNVERIFIED}
    /\ SameClient(2, 3) /\ Event(2).path \in ResolvedPaths(3)

\* ------------------------------------------------ request accounting

\* C29: after any sequence of record calls the request accounting of the
\* window and of its summary is consistent: total_requests = clean_requests +
\* suspicious_requests; content_requests <= clean_requests; the per-section
\* content counts, in the Counter and in the summary's content_sections, sum
\* to content_requests; clean_404 + suspicious_404 = not_found_requests; and
\* the per-target-section campaign counts sum to crosspromo_campaign_hits.
C29_AccountingConsistent ==
    /\ summary(current_window).total_requests = summary(current_window).clean_requests + summary(current_window).suspicious_requests
    /\ summary(current_window).content_requests <= summary(current_window).clean_requests
    /\ Sum(current_window.content_section_counts) = summary(current_window).content_requests
    /\ Sum(content_sections(current_window)) = summary(current_window).content_requests
    /\ summary(current_window).clean_404 + summary(current_window).suspicious_404 = summary(current_window).not_found_requests
    /\ Sum(current_window.crosspromo_campaign_target_sections) = summary(current_window).crosspromo_campaign_hits

\* Three calls: a probe answered 404, a clean page answered 404 and a
\* campaign hit; one suspicious and two clean requests, both content
C29_Witness ==
    /\ Len(log) = 3
    /\ Event(1).suspicious_path /\ Event(1).page /\ Event(1).status = <<"4", "0", "4">>
    /\ ~Event(2).suspicious_path /\ Event(2).page /\ Event(2).status = <<"4", "0", "4">>
    /\ CountedAsCampaignHit(3)
    /\ summary(current_window).suspicious_requests = 1 /\ summary(current_window).clean_requests = 2
    /\ summary(current_window).content_requests = 2
    /\ summary(current_window).suspicious_404 = 1 /\ summary(current_window).clean_404 = 1
    /\ summary(current_window).crosspromo_campaign_hits = 1

\* ------------------------------------------------ bots among the campaign hits

\* Call j moved the known-bot counter of the campaign hits
CountedAsKnownBotHit(j) == "crosspromo_known_bot_hits" \in log[j].moved
\* The campaign hits minus the known-bot ones, before the clamp of summary
UnclampedNonBotHits == current_window.crosspromo_campaign_hits - current_window.crosspromo_known_bot_hits

\* C30: a record call moves crosspromo_known_bot_hits exactly when it is a
\* campaign hit whose user agent is a known bot or that is suspected
\* automation; so after any sequence of record calls
\* crosspromo_suspected_automation_hits <= crosspromo_known_bot_hits <=
\* crosspromo_campaign_hits, crosspromo_non_bot_hits +
\* crosspromo_known_bot_hits = crosspromo_campaign_hits, and the difference
\* that summary clamps at 0 is never negative.
C30_KnownBotHitsBounded ==
    /\ \A j \in Calls : CountedAsKnownBotHit(j) <=> CountedAsCampaignHit(j) /\ (Event(j).known_bot_ua \/ Event(j).suspected_crosspromo_automation)
    /\ summary(current_window).crosspromo_suspected_automation_hits <= summary(current_window).crosspromo_known_bot_hits
    /\ summary(current_window).crosspromo_known_bot_hits <= summary(current_window).crosspromo_campaign_hits
    /\ summary(current_window).crosspromo_non_bot_hits + summary(current_window).crosspromo_known_bot_hits = summary(current_window).crosspromo_campaign_hits
    /\ UnclampedNonBotHits >= 0 /\ summary(current_window).crosspromo_non_bot_hits = UnclampedNonBotHits

\* Two campaign hits, the first by a known-bot user agent and the second
\* suspected automation by a browser user agent: both counted as known-bot
\* hits, one as suspected automation, none left as non-bot
C30_Witness ==
    /\ Len(log) = 2 /\ CountedAsCampaignHit(1) /\ CountedAsCampaignHit(2)
    /\ Event(1).known_bot_ua /\ ~Event(1).suspected_crosspromo_automation /\ CountedAsKnownBotHit(1)
    /\ ~Event(2).known_bot_ua /\ Event(2).suspected_crosspromo_automation /\ CountedAsKnownBotHit(2)
    /\ summary(current_window).crosspromo_suspected_automation_hits = 1
    /\ summary(current_window).crosspromo_known_bot_hits = 2
    /\ summary(current_window).crosspromo_campaign_hits = 2
    /\ summary(current_window).crosspromo_non_bot_hits = 0

====
